---- MODULE Spec2Model ----
(***************************************************************************)
(* Model of autoprotocol/liquid_handle_builders.py: the leaf builders, the *)
(* mixing helper, the legacy-parameter translators, the four sequence      *)
(* assemblers and the four compatibility shims.                            *)
(*                                                                         *)
(* Every function of the module is pure, so each one is an operator and    *)
(* each entry point is one action that draws the arguments of a call,      *)
(* applies the operator and records the call and what it returned.         *)
(*                                                                         *)
(* Representation of Python values                                         *)
(*   None / a value x     NONE == << >>  /  Some(x) == <<x>>               *)
(*   dict                 a function over its keys (a record)              *)
(*   keyword dict         a function key -> optional value: a key that is  *)
(*                        present may still hold None                      *)
(*   list                 a sequence                                       *)
(*   volume, flow-rate    an integer number of nanolitres (per second)     *)
(*   length               an integer number of micrometres                 *)
(*   a call's outcome     [exc, msg, val]: exc = "none" and the returned   *)
(*                        value, or the exception class and its cause      *)
(***************************************************************************)
EXTENDS Integers, Sequences, FiniteSets, TLC

VARIABLES op, args, ret

vars == <<op, args, ret>>

NONE == << >>

Some(x) == <<x>>

Ok(v) == [exc |-> "none", msg |-> "", val |-> v]

Raise(e, m) == [exc |-> e, msg |-> m, val |-> NONE]

\* Unit("n:microliter") and Unit("n:microliter/second"), in nanolitres
uL(n) == n * 1000

\* Unit("n:mm"), in micrometres
mm(n) == n * 1000

\* bool(Unit): a quantity is falsy when absent or of magnitude zero
UnitTruthy(o) == o # NONE /\ o[1] # 0

\* bool of an optional int: falsy when None or 0
IntTruthy(o) == o # NONE /\ o[1] # 0

\* bool of an optional str: falsy when None or empty
StrTruthy(o) == o # NONE /\ o[1] # ""

\* bool of an optional detection threshold, a Unit [mag, dim]
ThresholdTruthy(o) == o # NONE /\ o[1].mag # 0

\* bool of an optional dict: falsy when None or empty
DictTruthy(o) == o # NONE /\ DOMAIN o[1] # {}

\* {k: v for k, v in locals().items() if v is not None}
Sparse(r) == LET D == {k \in DOMAIN r : r[k] # NONE} IN [k \in D |-> r[k][1]]

\* {k: v for k, v in pairs if v}, the caller telling which values are truthy
SparseIf(r, truthy) == [k \in {k \in DOMAIN r : k \in truthy} |-> r[k][1]]

\* binding of **kwargs to a signature: absent parameters default to None
Bind(d, params) == [k \in params |-> IF k \in DOMAIN d THEN d[k] ELSE NONE]

\* dict.pop(k, None) for every k of ks
Pop(d, ks) == [k \in (DOMAIN d) \ ks |-> d[k]]

\* dict.update
Update(d, e) == [k \in (DOMAIN d) \cup (DOMAIN e) |-> IF k \in DOMAIN e THEN e[k] ELSE d[k]]

\* {k: v for k, v in d.items() if v is not None} on a keyword dict
DropNone(d) == [k \in {k \in DOMAIN d : d[k] # NONE} |-> d[k]]

-----------------------------------------------------------------------------
(* Python values as the caller of a leaf builder passes them: the type of  *)
(* the value and its payload, a number (an int, a float, the magnitude of  *)
(* a Unit, the length of a list or of a dict) or a string (a str, the      *)
(* dimension of a Unit).                                                   *)

Val(t, n, s) == [t |-> t, n |-> n, s |-> s]

PyNone == Val("NoneType", 0, "")

PyStr(s) == Val("str", 0, s)

PyInt(n) == Val("int", n, "")

PyFloat(n) == Val("float", n, "")

PyUnit(n, dim) == Val("Unit", n, dim)

PyList(n) == Val("list", n, "")

PyDict(n) == Val("dict", n, "")

\* isinstance(v, t)
isinstance(v, t) == v.t = t

\* bool(v): None, "", 0, 0.0, a Unit of magnitude 0, [] and {} are falsy
Truthy(v) == IF v.t = "str" THEN v.s # "" ELSE v.n # 0

\* the value as the optional a builder's body works on: None, or the payload
Arg(v) == IF v.t = "NoneType" THEN NONE ELSE Some(v)

StrArg(v) == IF v.t = "NoneType" THEN NONE ELSE Some(v.s)

NumArg(v) == IF v.t = "NoneType" THEN NONE ELSE Some(v.n)

ThresholdArg(v) == IF v.t = "NoneType" THEN NONE ELSE Some([mag |-> v.n, dim |-> v.s])

\* a dict of v.n items: its content is a z position
DictArg(v) == IF v.t = "NoneType" THEN NONE ELSE Some(IF v.n = 0 THEN << >> ELSE [reference |-> "well_bottom"])

-----------------------------------------------------------------------------
(* Leaf builders *)

SUPPORTED_SHAPES == {"SBS96", "SBS384"}

\* {k: v for k, v in arg_list if v}
TruthyItems(l) == [k \in {k \in DOMAIN l : Truthy(l[k])} |-> l[k]]

\* {k: v for k, v in arg_list if v is not None}
NotNoneItems(l) == [k \in {k \in DOMAIN l : l[k].t # "NoneType"} |-> l[k]]

\* a shape_builder that checks the format before the types of rows and columns
shape_builder_format_first(rows, columns, format) ==
    IF ~(format.t = "str" /\ format.s \in SUPPORTED_SHAPES)
    THEN Raise("ValueError", "format")
    ELSE IF ~isinstance(rows, "int") \/ ~isinstance(columns, "int")
    THEN Raise("TypeError", "rows_columns")
    ELSE IF \/ format.s = "SBS96" /\ (rows.n > 8 \/ columns.n > 12)
            \/ format.s = "SBS384" /\ (rows.n > 16 \/ columns.n > 24)
    THEN Raise("ValueError", "exceed")
    ELSE Ok(TruthyItems([rows |-> rows, columns |-> columns, format |-> format]))

shape_builder(rows, columns, format) ==
    IF ~isinstance(rows, "int") \/ ~isinstance(columns, "int")
    THEN Raise("TypeError", "rows_columns")
    ELSE IF ~(format.t = "str" /\ format.s \in SUPPORTED_SHAPES)
    THEN Raise("ValueError", "format")
    ELSE IF \/ format.s = "SBS96" /\ (rows.n > 8 \/ columns.n > 12)
            \/ format.s = "SBS384" /\ (rows.n > 16 \/ columns.n > 24)
    THEN Raise("ValueError", "exceed")
    ELSE Ok(TruthyItems([rows |-> rows, columns |-> columns, format |-> format]))

\* a location_builder that looks at the length of transports before any type
location_builder_value_first(location, transports, cycles, x_object_volume) ==
    IF isinstance(transports, "list") /\ transports.n <= 0
    THEN Raise("ValueError", "transports")
    ELSE IF cycles.t # "NoneType" /\ ~isinstance(cycles, "int")
    THEN Raise("TypeError", "cycles")
    ELSE IF transports.t # "NoneType" /\ ~isinstance(transports, "list")
    THEN Raise("TypeError", "transports")
    ELSE IF location.t # "NoneType" /\ ~isinstance(location, "Well") /\ ~isinstance(location, "str")
    THEN Raise("TypeError", "location")
    ELSE IF x_object_volume.t # "NoneType" /\ ~isinstance(x_object_volume, "list")
    THEN Raise("TypeError", "x_object_volume")
    ELSE IF cycles.t # "NoneType" /\ cycles.n <= 0
    THEN Raise("ValueError", "cycles")
    ELSE IF x_object_volume.t # "NoneType" /\ x_object_volume.n <= 0
    THEN Raise("ValueError", "x_object_volume")
    ELSE LET arg_dict == NotNoneItems([location |-> location, transports |-> transports,
                                       cycles |-> cycles,
                                       x_object_volume |-> x_object_volume])
         IN Ok(IF DOMAIN arg_dict # {} THEN Some(arg_dict) ELSE NONE)

location_builder(location, transports, cycles, x_object_volume) ==
    IF cycles.t # "NoneType" /\ ~isinstance(cycles, "int")
    THEN Raise("TypeError", "cycles")
    ELSE IF transports.t # "NoneType" /\ ~isinstance(transports, "list")
    THEN Raise("TypeError", "transports")
    ELSE IF location.t # "NoneType" /\ ~isinstance(location, "Well") /\ ~isinstance(location, "str")
    THEN Raise("TypeError", "location")
    ELSE IF x_object_volume.t # "NoneType" /\ ~isinstance(x_object_volume, "list")
    THEN Raise("TypeError", "x_object_volume")
    ELSE IF transports.t # "NoneType" /\ transports.n <= 0
    THEN Raise("ValueError", "transports")
    ELSE IF cycles.t # "NoneType" /\ cycles.n <= 0
    THEN Raise("ValueError", "cycles")
    ELSE IF x_object_volume.t # "NoneType" /\ x_object_volume.n <= 0
    THEN Raise("ValueError", "x_object_volume")
    ELSE LET arg_dict == NotNoneItems([location |-> location, transports |-> transports,
                                       cycles |-> cycles,
                                       x_object_volume |-> x_object_volume])
         IN Ok(IF DOMAIN arg_dict # {} THEN Some(arg_dict) ELSE NONE)

transport_builder(volume, flowrate, delay_time, mode_params, x_calibrated_volume) ==
    LET arg_dict == Sparse([volume |-> volume, flowrate |-> flowrate,
                            delay_time |-> delay_time, mode_params |-> mode_params,
                            x_calibrated_volume |-> x_calibrated_volume])
    IN IF DOMAIN arg_dict = {} THEN NONE ELSE Some(arg_dict)

\* a transport_builder that checks the type of flowrate only
transport_builder_typed_flowrate_only(volume, flowrate, delay_time, mode_params, x_calibrated_volume) ==
    IF flowrate.t # "NoneType" /\ ~isinstance(flowrate, "dict")
    THEN Raise("TypeError", "flowrate")
    ELSE Ok(transport_builder(Arg(volume), Arg(flowrate), Arg(delay_time), Arg(mode_params), Arg(x_calibrated_volume)))

\* transport_builder as a caller reaches it: the type checks, then the record
transport_builder_typed(volume, flowrate, delay_time, mode_params, x_calibrated_volume) ==
    IF flowrate.t # "NoneType" /\ ~isinstance(flowrate, "dict")
    THEN Raise("TypeError", "flowrate")
    ELSE IF mode_params.t # "NoneType" /\ ~isinstance(mode_params, "dict")
    THEN Raise("TypeError", "mode_params")
    ELSE Ok(transport_builder(Arg(volume), Arg(flowrate), Arg(delay_time), Arg(mode_params), Arg(x_calibrated_volume)))

valid_devices == {"omni", "bravo"}

flowrate_builder(target, initial, cutoff, x_acceleration, x_deceleration, device) ==
    IF device # NONE /\ device[1] \notin valid_devices
    THEN Raise("AttributeError", "device")
    ELSE LET dev == "omni"
         IN IF initial # NONE /\ dev \notin {"omni"}
            THEN Raise("ValueError", "initial")
            ELSE IF x_deceleration # NONE /\ dev \notin {"omni"}
            THEN Raise("ValueError", "x_deceleration")
            ELSE Ok(Sparse([target |-> Some(target), initial |-> initial,
                            cutoff |-> cutoff, x_acceleration |-> x_acceleration,
                            x_deceleration |-> x_deceleration]))

\* flowrate_builder as a caller reaches it: the type checks, then the value checks
flowrate_builder_typed(target, initial, cutoff, x_acceleration, x_deceleration, device) ==
    IF x_acceleration.t # "NoneType" /\ ~isinstance(x_acceleration, "int")
    THEN Raise("TypeError", "x_acceleration")
    ELSE IF x_deceleration.t # "NoneType" /\ ~isinstance(x_deceleration, "int")
    THEN Raise("TypeError", "x_deceleration")
    ELSE flowrate_builder(target.n, NumArg(initial), NumArg(cutoff), NumArg(x_acceleration), NumArg(x_deceleration), StrArg(device))

liquid_classes == {"air", "default"}

mode_params_builder(liquid_class, tip_x, tip_y, tip_z) ==
    IF StrTruthy(liquid_class) /\ liquid_class[1] \notin liquid_classes
    THEN Raise("ValueError", "liquid_class")
    ELSE IF IntTruthy(tip_x) /\ (tip_x[1] > 1 \/ tip_x[1] < -1)
    THEN Raise("ValueError", "tip_x")
    ELSE IF IntTruthy(tip_y) /\ (tip_y[1] > 1 \/ tip_y[1] < -1)
    THEN Raise("ValueError", "tip_y")
    ELSE LET tip_position_dict ==
                 SparseIf([position_x |-> tip_x, position_y |-> tip_y, position_z |-> tip_z],
                          (IF IntTruthy(tip_x) THEN {"position_x"} ELSE {})
                          \cup (IF IntTruthy(tip_y) THEN {"position_y"} ELSE {})
                          \cup (IF DictTruthy(tip_z) THEN {"position_z"} ELSE {}))
         IN Ok(Sparse([liquid_class |-> IF StrTruthy(liquid_class) THEN liquid_class ELSE NONE,
                       tip_position |-> Some(tip_position_dict)]))

\* mode_params_builder as a caller reaches it: the type checks, which pass every falsy
\* value, then the value checks, which skip every falsy value
\* a mode_params_builder that checks the type of every argument that is not None
mode_params_builder_typed_not_none(liquid_class, tip_x, tip_y, tip_z) ==
    IF liquid_class.t # "NoneType" /\ ~isinstance(liquid_class, "str")
    THEN Raise("TypeError", "liquid_class")
    ELSE IF tip_x.t # "NoneType" /\ ~isinstance(tip_x, "float") /\ ~isinstance(tip_x, "int")
    THEN Raise("TypeError", "tip_x")
    ELSE IF tip_y.t # "NoneType" /\ ~isinstance(tip_y, "float") /\ ~isinstance(tip_y, "int")
    THEN Raise("TypeError", "tip_y")
    ELSE IF tip_z.t # "NoneType" /\ ~isinstance(tip_z, "dict")
    THEN Raise("TypeError", "tip_z")
    ELSE mode_params_builder(IF Truthy(liquid_class) THEN StrArg(liquid_class) ELSE NONE,
                             IF Truthy(tip_x) THEN NumArg(tip_x) ELSE NONE,
                             IF Truthy(tip_y) THEN NumArg(tip_y) ELSE NONE,
                             IF Truthy(tip_z) THEN DictArg(tip_z) ELSE NONE)

mode_params_builder_typed(liquid_class, tip_x, tip_y, tip_z) ==
    IF Truthy(liquid_class) /\ ~isinstance(liquid_class, "str")
    THEN Raise("TypeError", "liquid_class")
    ELSE IF Truthy(tip_x) /\ ~isinstance(tip_x, "float") /\ ~isinstance(tip_x, "int")
    THEN Raise("TypeError", "tip_x")
    ELSE IF Truthy(tip_y) /\ ~isinstance(tip_y, "float") /\ ~isinstance(tip_y, "int")
    THEN Raise("TypeError", "tip_y")
    ELSE IF Truthy(tip_z) /\ ~isinstance(tip_z, "dict")
    THEN Raise("TypeError", "tip_z")
    ELSE mode_params_builder(IF Truthy(liquid_class) THEN StrArg(liquid_class) ELSE NONE,
                             IF Truthy(tip_x) THEN NumArg(tip_x) ELSE NONE,
                             IF Truthy(tip_y) THEN NumArg(tip_y) ELSE NONE,
                             IF Truthy(tip_z) THEN DictArg(tip_z) ELSE NONE)

valid_references == {"well_top", "well_bottom", "liquid_surface", "preceding_position"}

valid_device_methods == [omni |-> {"tracked", "pressure", "capacitance"},
                         bravo |-> {"tracked"}]

\* a z_position_builder whose detection check forgets the well_bottom reference
z_position_builder_top_only(reference, offset, detection_method, detection_threshold, detection_duration, fallback, device) ==
    IF device # NONE /\ device[1] \notin DOMAIN valid_device_methods
    THEN Raise("AttributeError", "device")
    ELSE LET dev == "omni"
             valid_methods == valid_device_methods[dev]
         IN IF StrTruthy(reference) /\ reference[1] \notin valid_references
            THEN Raise("ValueError", "reference")
            ELSE IF (UnitTruthy(detection_duration) \/ ThresholdTruthy(detection_threshold))
                    /\ ~StrTruthy(detection_method)
            THEN Raise("ValueError", "method_required")
            ELSE IF StrTruthy(detection_method) /\ detection_method[1] \notin valid_methods
            THEN Raise("ValueError", "method")
            ELSE IF StrTruthy(detection_method) /\ reference # NONE
                    /\ reference[1] \in {"well_top"}
            THEN Raise("ValueError", "detection_does_not_apply")
            ELSE LET detection ==
                         IF ~StrTruthy(detection_method) THEN NONE
                         ELSE Some(SparseIf([method |-> detection_method,
                                             threshold |-> detection_threshold,
                                             duration |-> detection_duration,
                                             fallback |-> fallback],
                                   {"method"}
                                   \cup (IF ThresholdTruthy(detection_threshold) THEN {"threshold"} ELSE {})
                                   \cup (IF UnitTruthy(detection_duration) THEN {"duration"} ELSE {})
                                   \cup (IF DictTruthy(fallback) THEN {"fallback"} ELSE {})))
                 IN Ok(SparseIf([reference |-> reference, offset |-> offset,
                                 detection |-> detection],
                                (IF StrTruthy(reference) THEN {"reference"} ELSE {})
                                \cup (IF UnitTruthy(offset) THEN {"offset"} ELSE {})
                                \cup (IF detection # NONE THEN {"detection"} ELSE {})))

\* a z_position_builder that asks for a detection method only when a duration is given
z_position_builder_duration_only(reference, offset, detection_method, detection_threshold, detection_duration, fallback, device) ==
    IF device # NONE /\ device[1] \notin DOMAIN valid_device_methods
    THEN Raise("AttributeError", "device")
    ELSE LET dev == "omni"
             valid_methods == valid_device_methods[dev]
         IN IF StrTruthy(reference) /\ reference[1] \notin valid_references
            THEN Raise("ValueError", "reference")
            ELSE IF UnitTruthy(detection_duration)
                    /\ ~StrTruthy(detection_method)
            THEN Raise("ValueError", "method_required")
            ELSE IF StrTruthy(detection_method) /\ detection_method[1] \notin valid_methods
            THEN Raise("ValueError", "method")
            ELSE IF StrTruthy(detection_method) /\ reference # NONE
                    /\ reference[1] \in {"well_top", "well_bottom"}
            THEN Raise("ValueError", "detection_does_not_apply")
            ELSE LET detection ==
                         IF ~StrTruthy(detection_method) THEN NONE
                         ELSE Some(SparseIf([method |-> detection_method,
                                             threshold |-> detection_threshold,
                                             duration |-> detection_duration,
                                             fallback |-> fallback],
                                   {"method"}
                                   \cup (IF ThresholdTruthy(detection_threshold) THEN {"threshold"} ELSE {})
                                   \cup (IF UnitTruthy(detection_duration) THEN {"duration"} ELSE {})
                                   \cup (IF DictTruthy(fallback) THEN {"fallback"} ELSE {})))
                 IN Ok(SparseIf([reference |-> reference, offset |-> offset,
                                 detection |-> detection],
                                (IF StrTruthy(reference) THEN {"reference"} ELSE {})
                                \cup (IF UnitTruthy(offset) THEN {"offset"} ELSE {})
                                \cup (IF detection # NONE THEN {"detection"} ELSE {})))

\* a z_position_builder that takes a detection method with liquid_surface only
z_position_builder_surface_only(reference, offset, detection_method, detection_threshold, detection_duration, fallback, device) ==
    IF device # NONE /\ device[1] \notin DOMAIN valid_device_methods
    THEN Raise("AttributeError", "device")
    ELSE LET dev == "omni"
             valid_methods == valid_device_methods[dev]
         IN IF StrTruthy(reference) /\ reference[1] \notin valid_references
            THEN Raise("ValueError", "reference")
            ELSE IF (UnitTruthy(detection_duration) \/ ThresholdTruthy(detection_threshold))
                    /\ ~StrTruthy(detection_method)
            THEN Raise("ValueError", "method_required")
            ELSE IF StrTruthy(detection_method) /\ detection_method[1] \notin valid_methods
            THEN Raise("ValueError", "method")
            ELSE IF StrTruthy(detection_method)
                    /\ (reference = NONE \/ reference[1] # "liquid_surface")
            THEN Raise("ValueError", "detection_does_not_apply")
            ELSE LET detection ==
                         IF ~StrTruthy(detection_method) THEN NONE
                         ELSE Some(SparseIf([method |-> detection_method,
                                             threshold |-> detection_threshold,
                                             duration |-> detection_duration,
                                             fallback |-> fallback],
                                   {"method"}
                                   \cup (IF ThresholdTruthy(detection_threshold) THEN {"threshold"} ELSE {})
                                   \cup (IF UnitTruthy(detection_duration) THEN {"duration"} ELSE {})
                                   \cup (IF DictTruthy(fallback) THEN {"fallback"} ELSE {})))
                 IN Ok(SparseIf([reference |-> reference, offset |-> offset,
                                 detection |-> detection],
                                (IF StrTruthy(reference) THEN {"reference"} ELSE {})
                                \cup (IF UnitTruthy(offset) THEN {"offset"} ELSE {})
                                \cup (IF detection # NONE THEN {"detection"} ELSE {})))

z_position_builder(reference, offset, detection_method, detection_threshold, detection_duration, fallback, device) ==
    IF device # NONE /\ device[1] \notin DOMAIN valid_device_methods
    THEN Raise("AttributeError", "device")
    ELSE LET dev == "omni"
             valid_methods == valid_device_methods[dev]
         IN IF StrTruthy(reference) /\ reference[1] \notin valid_references
            THEN Raise("ValueError", "reference")
            ELSE IF (UnitTruthy(detection_duration) \/ ThresholdTruthy(detection_threshold))
                    /\ ~StrTruthy(detection_method)
            THEN Raise("ValueError", "method_required")
            ELSE IF StrTruthy(detection_method) /\ detection_method[1] \notin valid_methods
            THEN Raise("ValueError", "method")
            ELSE IF StrTruthy(detection_method) /\ reference # NONE
                    /\ reference[1] \in {"well_top", "well_bottom"}
            THEN Raise("ValueError", "detection_does_not_apply")
            ELSE LET detection ==
                         IF ~StrTruthy(detection_method) THEN NONE
                         ELSE Some(SparseIf([method |-> detection_method,
                                             threshold |-> detection_threshold,
                                             duration |-> detection_duration,
                                             fallback |-> fallback],
                                   {"method"}
                                   \cup (IF ThresholdTruthy(detection_threshold) THEN {"threshold"} ELSE {})
                                   \cup (IF UnitTruthy(detection_duration) THEN {"duration"} ELSE {})
                                   \cup (IF DictTruthy(fallback) THEN {"fallback"} ELSE {})))
                 IN Ok(SparseIf([reference |-> reference, offset |-> offset,
                                 detection |-> detection],
                                (IF StrTruthy(reference) THEN {"reference"} ELSE {})
                                \cup (IF UnitTruthy(offset) THEN {"offset"} ELSE {})
                                \cup (IF detection # NONE THEN {"detection"} ELSE {})))

\* z_position_builder as a caller reaches it: the type checks, then the value checks
z_position_builder_typed(reference, offset, detection_method, detection_threshold, detection_duration, fallback, device) ==
    IF reference.t # "NoneType" /\ ~isinstance(reference, "str")
    THEN Raise("TypeError", "reference")
    ELSE IF offset.t # "NoneType" /\ ~isinstance(offset, "Unit")
    THEN Raise("TypeError", "offset")
    ELSE IF detection_method.t # "NoneType" /\ ~isinstance(detection_method, "str")
    THEN Raise("TypeError", "detection_method")
    ELSE IF detection_threshold.t # "NoneType" /\ ~isinstance(detection_threshold, "Unit")
    THEN Raise("TypeError", "detection_threshold")
    ELSE IF fallback.t # "NoneType" /\ ~isinstance(fallback, "dict")
    THEN Raise("TypeError", "fallback")
    ELSE IF device.t # "NoneType" /\ ~isinstance(device, "str")
    THEN Raise("TypeError", "device")
    ELSE z_position_builder(StrArg(reference), NumArg(offset), StrArg(detection_method),
                            ThresholdArg(detection_threshold), NumArg(detection_duration),
                            DictArg(fallback), StrArg(device))

\* z_position_builder(reference=..., offset=...): every other argument at its default
z_position(reference, offset) ==
    z_position_builder(Some(reference), offset, NONE, NONE, NONE, NONE, Some("omni")).val

\* a liquid-surface position that loses the tracked detection
z_tracked_untracked == z_position("liquid_surface", Some(mm(-1)))

\* z_position_builder(reference="liquid_surface", detection_method="tracked", offset=Unit("-1:mm"))
z_tracked ==
    z_position_builder(Some("liquid_surface"), Some(mm(-1)), Some("tracked"),
                       NONE, NONE, NONE, Some("omni")).val

\* transport_builder(mode_params=mode_params_builder(tip_z=...)): a tip movement
move_to(tip_z) ==
    transport_builder(NONE, NONE, NONE,
                      Some(mode_params_builder(NONE, NONE, NONE, tip_z).val), NONE)[1]

\* transport_builder(x_calibrated_volume=..., mode_params=mode_params_builder(tip_z=...,
\* liquid_class="air")): a movement of air
air_transport(x_calibrated_volume, tip_z) ==
    transport_builder(NONE, NONE, NONE,
                      Some(mode_params_builder(Some("air"), NONE, NONE, Some(tip_z)).val),
                      Some(x_calibrated_volume))[1]

\* transport_builder(volume=..., x_calibrated_volume=..., flowrate=...,
\* mode_params=mode_params_builder(tip_z=...)): a movement of liquid
liquid_transport(volume, x_calibrated_volume, flowrate, tip_z) ==
    transport_builder(Some(volume), flowrate, NONE,
                      Some(mode_params_builder(NONE, NONE, NONE, Some(tip_z)).val),
                      x_calibrated_volume)[1]

-----------------------------------------------------------------------------
(* Mixing helper *)

\* a repetition that stops one copy short
Repeat_short(list, n) ==
    [i \in 1..((n - 1) * Len(list)) |-> list[((i - 1) % Len(list)) + 1]]

RECURSIVE Repeat(_, _)
\* list * n: n copies of the list, the empty list when n <= 0
Repeat(list, n) == IF n <= 0 THEN << >> ELSE list \o Repeat(list, n - 1)

\* a mix that positions the tip at 1 mm when no start height is given
mix_transports_helper_positioned(volume, speed, repetitions, z_height, new_defaults) ==
    LET target_speed == IF speed # NONE THEN speed[1] ELSE uL(100)
        reps == IF IntTruthy(repetitions) THEN repetitions[1] ELSE 10
        position == << move_to(Some(z_position("well_bottom",
                                               IF z_height # NONE THEN z_height
                                               ELSE Some(mm(1))))) >>
        flow == Some(flowrate_builder(target_speed, NONE, NONE, NONE, NONE, Some("omni")).val)
    IN position \o
       Repeat(<< liquid_transport(-volume, Some(-volume), flow,
                                  z_position("preceding_position", NONE)),
                 liquid_transport(volume, Some(volume), flow,
                                  z_position("preceding_position", NONE)) >>,
              reps)

\* a mix cycle that dispenses twice what it aspirated
mix_transports_helper_unbalanced(volume, speed, repetitions, z_height, new_defaults) ==
    LET target_speed == IF speed # NONE THEN speed[1] ELSE uL(100)
        reps == IF IntTruthy(repetitions) THEN repetitions[1] ELSE 10
        position == IF z_height # NONE
                    THEN << move_to(Some(z_position("well_bottom", z_height))) >>
                    ELSE << >>
        mix_vol == volume
        flow == Some(flowrate_builder(target_speed, NONE, NONE, NONE, NONE, Some("omni")).val)
    IN position \o
       Repeat(<< liquid_transport(-mix_vol, Some(-mix_vol), flow,
                                  z_position("preceding_position", NONE)),
                 liquid_transport(2 * mix_vol, Some(mix_vol), flow,
                                  z_position("preceding_position", NONE)) >>,
              reps)

mix_transports_helper(volume, speed, repetitions, z_height, new_defaults) ==
    LET target_speed == IF speed # NONE THEN speed[1] ELSE uL(100)
        reps == IF IntTruthy(repetitions) THEN repetitions[1] ELSE 10
        position == IF z_height # NONE
                    THEN << move_to(Some(z_position("well_bottom", z_height))) >>
                    ELSE << >>
        mix_vol == volume
        flow == Some(flowrate_builder(target_speed, NONE, NONE, NONE, NONE, Some("omni")).val)
    IN position \o
       Repeat(<< liquid_transport(-mix_vol, Some(-mix_vol), flow,
                                  z_position("preceding_position", NONE)),
                 liquid_transport(mix_vol, Some(mix_vol), flow,
                                  z_position("preceding_position", NONE)) >>,
              reps)

-----------------------------------------------------------------------------
(* Sequence assemblers.  `a` is the keyword dict bound to the signature. *)

xfer_asp_params == {"aspirate_flowrate", "pre_buffer", "disposal_vol", "transit_vol",
                    "tip_z", "calibrated_vol", "primer_vol", "following", "mix_before",
                    "mix_speed", "repetitions", "mix_vol", "new_defaults"}

xfer_asp_helper(volume, a) ==
    LET pre_buffer == a.pre_buffer[1]
        disposal_vol == a.disposal_vol[1]
        transit_vol == a.transit_vol[1]
        pre == IF pre_buffer > uL(0)
               THEN << air_transport(-pre_buffer, z_position("well_top", Some(mm(1)))) >>
               ELSE << >>
        mix == IF a.mix_before = Some(TRUE)
               THEN mix_transports_helper(IF a.mix_vol # NONE THEN a.mix_vol[1]
                                          ELSE volume \div 2,
                                          a.mix_speed, a.repetitions, Some(500), NONE)
               ELSE << >>
        primer_vol == IF UnitTruthy(a.primer_vol) THEN a.primer_vol[1] ELSE uL(5)
        aspirate_tip_z == IF a.following = Some(TRUE) THEN z_tracked
                          ELSE z_position("preceding_position", NONE)
        cal_asp_vol == IF UnitTruthy(a.calibrated_vol)
                       THEN Some(-(a.calibrated_vol[1] + primer_vol + disposal_vol))
                       ELSE NONE
        transit == IF transit_vol > uL(0)
                   THEN << move_to(Some(z_position("well_top", Some(mm(1))))),
                           air_transport(-transit_vol,
                                         z_position("preceding_position", NONE)) >>
                   ELSE << >>
    IN pre \o mix
       \o << move_to(a.tip_z) >>
       \o << liquid_transport(-(volume + primer_vol + disposal_vol), cal_asp_vol,
                              a.aspirate_flowrate, aspirate_tip_z) >>
       \o << liquid_transport(primer_vol, Some(primer_vol), a.aspirate_flowrate,
                              z_position("preceding_position", NONE)) >>
       \o transit

\* a blow-out with the two re-positions exchanged
blowout_swapped(a) ==
    IF a.blowout_buffer = Some(TRUE) /\ a.pre_buffer[1] > uL(0)
    THEN << IF a.new_defaults = Some(TRUE)
            THEN move_to(Some(z_position("well_bottom", Some(mm(1)))))
            ELSE move_to(Some(z_position("well_top", Some(mm(-2))))),
            air_transport(a.pre_buffer[1], z_position("preceding_position", NONE)) >>
    ELSE << >>

\* the blow-out of xfer_dsp_helper and stamp_dsp_helper: re-position, expel the pre-buffer
blowout(a) ==
    IF a.blowout_buffer = Some(TRUE) /\ a.pre_buffer[1] > uL(0)
    THEN << IF a.new_defaults = Some(TRUE)
            THEN move_to(Some(z_position("well_top", Some(mm(-2)))))
            ELSE move_to(Some(z_position("well_bottom", Some(mm(1))))),
            air_transport(a.pre_buffer[1], z_position("preceding_position", NONE)) >>
    ELSE << >>

xfer_dsp_params == {"dispense_flowrate", "pre_buffer", "disposal_vol", "transit_vol",
                    "blowout_buffer", "tip_z", "following", "calibrated_vol", "mix_speed",
                    "repetitions", "mix_vol", "mix_after", "new_defaults"}

xfer_dsp_helper(volume, a) ==
    LET transit_vol == a.transit_vol[1]
        transit == IF transit_vol > uL(0)
                   THEN << air_transport(transit_vol, z_position("well_top", Some(mm(1)))) >>
                   ELSE << >>
        dispense_tip_z == IF a.following = Some(TRUE) THEN z_tracked
                          ELSE z_position("preceding_position", NONE)
        mix == IF a.mix_after = Some(TRUE)
               THEN mix_transports_helper(IF a.mix_vol # NONE THEN a.mix_vol[1]
                                          ELSE volume \div 2,
                                          a.mix_speed, a.repetitions, Some(500), NONE)
               ELSE << >>
    IN transit
       \o << move_to(a.tip_z) >>
       \o << liquid_transport(volume, a.calibrated_vol, a.dispense_flowrate,
                              dispense_tip_z) >>
       \o mix
       \o blowout(a)

stamp_dsp_params == {"dispense_flowrate", "pre_buffer", "blowout_buffer", "tip_z",
                     "following", "calibrated_vol", "mix_speed", "repetitions", "mix_vol",
                     "mix_after", "transit_vol", "new_defaults"}

\* a stamp dispense that expels the transit air gap whether or not new_defaults is set,
\* the way xfer_dsp_helper does
stamp_dsp_helper_ungated(volume, a) ==
    LET transit == IF a.transit_vol[1] > uL(0)
                   THEN << air_transport(a.transit_vol[1],
                                         z_position("well_top", Some(mm(1)))) >>
                   ELSE << >>
        tip_z == IF ~DictTruthy(a.tip_z)
                 THEN Some(z_position("well_bottom", Some(mm(1))))
                 ELSE a.tip_z
        dispense_tip_z == IF a.following = Some(TRUE) THEN z_tracked
                          ELSE z_position("preceding_position", NONE)
        mix == IF a.mix_after = Some(TRUE)
               THEN mix_transports_helper(IF a.mix_vol # NONE THEN a.mix_vol[1]
                                          ELSE volume \div 2,
                                          a.mix_speed, a.repetitions, Some(mm(1)), NONE)
               ELSE << >>
    IN transit
       \o << move_to(tip_z) >>
       \o << liquid_transport(volume, a.calibrated_vol, a.dispense_flowrate,
                              dispense_tip_z) >>
       \o mix
       \o blowout(a)

stamp_dsp_helper(volume, a) ==
    LET transit == IF a.new_defaults = Some(TRUE) /\ a.transit_vol[1] > uL(0)
                   THEN << air_transport(a.transit_vol[1],
                                         z_position("well_top", Some(mm(1)))) >>
                   ELSE << >>
        tip_z == IF ~DictTruthy(a.tip_z)
                 THEN Some(z_position("well_bottom", Some(mm(1))))
                 ELSE a.tip_z
        dispense_tip_z == IF a.following = Some(TRUE) THEN z_tracked
                          ELSE z_position("preceding_position", NONE)
        mix == IF a.mix_after = Some(TRUE)
               THEN mix_transports_helper(IF a.mix_vol # NONE THEN a.mix_vol[1]
                                          ELSE volume \div 2,
                                          a.mix_speed, a.repetitions, Some(mm(1)), NONE)
               ELSE << >>
    IN transit
       \o << move_to(tip_z) >>
       \o << liquid_transport(volume, a.calibrated_vol, a.dispense_flowrate,
                              dispense_tip_z) >>
       \o mix
       \o blowout(a)

stamp_asp_params == {"aspirate_flowrate", "pre_buffer", "tip_z", "calibrated_vol",
                     "primer_vol", "blowout_buffer", "transit_vol", "mix_before",
                     "mix_speed", "repetitions", "mix_vol", "new_defaults"}

stamp_asp_helper(volume, a) ==
    LET pre_buffer == a.pre_buffer[1]
        safe_offset == mm(10)
        pre == IF pre_buffer > uL(0)
               THEN << air_transport(-pre_buffer, z_position("well_top", Some(safe_offset))) >>
               ELSE << >>
        mix == IF a.mix_before = Some(TRUE)
               THEN mix_transports_helper(IF a.mix_vol # NONE THEN a.mix_vol[1]
                                          ELSE volume \div 2,
                                          a.mix_speed, a.repetitions, NONE, NONE)
               ELSE << >>
        primer_vol == IF UnitTruthy(a.primer_vol) THEN a.primer_vol[1] ELSE uL(5)
        aspirate_tip_z == z_position("preceding_position", NONE)
        cal_asp_vol == IF UnitTruthy(a.calibrated_vol)
                       THEN Some(-(a.calibrated_vol[1] + primer_vol))
                       ELSE NONE
        transit == IF a.new_defaults = Some(TRUE) /\ a.transit_vol[1] > uL(0)
                   THEN << move_to(Some(z_position("well_top", Some(mm(1))))),
                           air_transport(-a.transit_vol[1],
                                         z_position("preceding_position", NONE)) >>
                   ELSE << >>
    IN pre
       \o << move_to(a.tip_z) >>
       \o mix
       \o << liquid_transport(-(volume + primer_vol), cal_asp_vol,
                              a.aspirate_flowrate, aspirate_tip_z) >>
       \o << liquid_transport(primer_vol, Some(primer_vol), a.aspirate_flowrate,
                              z_position("preceding_position", NONE)) >>
       \o transit

-----------------------------------------------------------------------------
(* Legacy translators.  `d` is the keyword dict of the call.  A legacy     *)
(* aspirate_source / dispense_target / depth dict is the sequence of its   *)
(* items <<k, v>> in iteration order.                                        *)

\* dict[key] as an optional: None when the key is absent
Get(dict, key) == IF key \in DOMAIN dict THEN Some(dict[key]) ELSE NONE

\* a truth test that takes an empty dict for a given one
ItemsTruthy_given(o) == o # NONE

\* bool of an optional legacy dict: falsy when None or without items
ItemsTruthy(o) == o # NONE /\ Len(o[1]) > 0

\* a reference map that takes ll_top for the bottom of the well and ll_bottom for its top
reference_map_swapped == [ll_following |-> "liquid_surface", ll_top |-> "well_bottom",
                          ll_bottom |-> "well_top", ll_surface |-> "liquid_surface"]

reference_map == [ll_following |-> "liquid_surface", ll_top |-> "well_top",
                  ll_bottom |-> "well_bottom", ll_surface |-> "liquid_surface"]

method_map == [capacitive |-> "capacitance", pressure |-> "pressure"]

\* Unit("0.009740:picofarad"), in 1e-6 pF
clld_unit == 9740

\* Unit("0.000109867:psi"), in 1e-9 psi
plld_unit == 109867

RECURSIVE xfer_parse_depth(_, _, _)
\* parse_depth of parse_xfer_params, from item i on; st = [exc, msg, following, z]
xfer_parse_depth(depth, i, st) ==
    IF i > Len(depth) \/ st.exc # "none" THEN st
    ELSE LET k == depth[i][1]
             v == depth[i][2]
             st1 == IF k = "method"
                    THEN IF v \in DOMAIN reference_map
                         THEN [st EXCEPT !.z = Update(@, [reference |-> reference_map[v]]),
                                         !.following = IF v = "ll_surface" THEN FALSE ELSE @]
                         ELSE [st EXCEPT !.exc = "KeyError", !.msg = "reference_map"]
                    ELSE IF k = "distance"
                    THEN [st EXCEPT !.z = Update(@, [offset |-> v])]
                    ELSE IF k \in DOMAIN method_map
                    THEN IF v \in DOMAIN method_map
                         THEN [st EXCEPT !.z = Update(@, [detection_method |-> method_map[v]])]
                         ELSE [st EXCEPT !.exc = "KeyError", !.msg = "method_map"]
                    ELSE st
         IN xfer_parse_depth(depth, i + 1, st1)

RECURSIVE stamp_parse_depth(_, _, _)
\* parse_depth of parse_stamp_params, from item i on
stamp_parse_depth(depth, i, st) ==
    IF i > Len(depth) \/ st.exc # "none" THEN st
    ELSE LET k == depth[i][1]
             v == depth[i][2]
             st1 == IF k = "method"
                    THEN IF v \in DOMAIN reference_map
                         THEN [st EXCEPT !.z = Update(@, [reference |-> reference_map[v]]),
                                         !.following = IF v = "ll_surface" THEN FALSE ELSE @]
                         ELSE [st EXCEPT !.exc = "KeyError", !.msg = "reference_map"]
                    ELSE IF k = "distance"
                    THEN [st EXCEPT !.z = Update(@, [offset |-> v])]
                    ELSE IF k \in DOMAIN method_map
                    THEN [st EXCEPT !.exc = "ValueError", !.msg = "no_multichannel_detection"]
                    ELSE st
         IN stamp_parse_depth(depth, i + 1, st1)

\* pre-buffer bands with the first boundary inclusive
xfer_old_pre_buffer_inclusive(v) ==
    IF v <= uL(10) THEN uL(5)
    ELSE IF v <= uL(25) THEN uL(10)
    ELSE IF v <= uL(75) THEN uL(15)
    ELSE IF v <= uL(100) THEN uL(20)
    ELSE uL(25)

\* old_pre_buffer of parse_xfer_params
xfer_old_pre_buffer(v) ==
    IF v < uL(10) THEN uL(5)
    ELSE IF v <= uL(25) THEN uL(10)
    ELSE IF v <= uL(75) THEN uL(15)
    ELSE IF v <= uL(100) THEN uL(20)
    ELSE uL(25)

\* the stamp default of the transit volume in place of the single-channel one
xfer_old_transit_vol_stamp(v) == uL(1)

\* old_transit_vol of parse_xfer_params
xfer_old_transit_vol(v) == uL(2)

\* the state of the locals that the item loops of the translators assign
ParseState(z_pos_dict, following) ==
    [exc |-> "none", msg |-> "", aspirate_flowrate |-> NONE, dispense_flowrate |-> NONE,
     calibrated_vol |-> NONE, primer_vol |-> NONE, following |-> following,
     z |-> z_pos_dict]

\* a merge of the depth that leaves following as it was
MergeDepth_keeps_following(st, r) ==
    IF r.exc # "none" THEN [st EXCEPT !.exc = r.exc, !.msg = r.msg]
    ELSE [st EXCEPT !.z = Update(@, r.z)]

\* a merge of the depth in which a fixed reference clears following
MergeDepth_fixed_clears_following(st, r) ==
    IF r.exc # "none" THEN [st EXCEPT !.exc = r.exc, !.msg = r.msg]
    ELSE [st EXCEPT !.following = r.following /\ ("reference" \notin DOMAIN r.z
                                                          \/ r.z.reference = "liquid_surface"), !.z = Update(@, r.z)]

\* `following, tip_z = parse_depth(v); z_pos_dict.update(tip_z)` for a parse_depth result r
MergeDepth(st, r) ==
    IF r.exc # "none" THEN [st EXCEPT !.exc = r.exc, !.msg = r.msg]
    ELSE [st EXCEPT !.following = r.following, !.z = Update(@, r.z)]

\* parse_depth(v): it starts from an empty z_pos_dict with following = True
DepthStart == [exc |-> "none", msg |-> "", following |-> TRUE, z |-> << >>]

\* the clld_sensitivity and plld_threshold items of parse_xfer_params
xfer_threshold_item(st, k, v) ==
    IF k = "clld_sensitivity"
    THEN [st EXCEPT !.z = Update(@, [detection_threshold |->
                                        [mag |-> clld_unit * v, dim |-> "capacitance"]])]
    ELSE IF k = "plld_threshold"
    THEN [st EXCEPT !.z = Update(@, [detection_threshold |->
                                        [mag |-> plld_unit * v.sensitivity, dim |-> "pressure"],
                                     detection_duration |-> v.duration])]
    ELSE st

RECURSIVE xfer_aspirate_source(_, _, _)
\* `for k, v in aspirate_source.items()` of parse_xfer_params, from item i on
xfer_aspirate_source(items, i, st) ==
    IF i > Len(items) \/ st.exc # "none" THEN st
    ELSE LET k == items[i][1]
             v == items[i][2]
             st1 == IF k = "aspirate_speed"
                    THEN [st EXCEPT !.aspirate_flowrate =
                              Some(flowrate_builder(v.max, Some(v.start), NONE, NONE, NONE,
                                                    Some("omni")).val)]
                    ELSE st
             st2 == [st1 EXCEPT !.calibrated_vol = IF k = "volume" THEN Some(v) ELSE NONE,
                                !.primer_vol = IF k = "primer_vol" THEN Some(v) ELSE NONE]
             st3 == IF k = "depth"
                    THEN MergeDepth(st2, xfer_parse_depth(v, 1, DepthStart))
                    ELSE st2
         IN xfer_aspirate_source(items, i + 1, xfer_threshold_item(st3, k, v))

RECURSIVE xfer_dispense_target(_, _, _)
\* `for k, v in dispense_target.items()` of parse_xfer_params, from item i on
xfer_dispense_target(items, i, st) ==
    IF i > Len(items) \/ st.exc # "none" THEN st
    ELSE LET k == items[i][1]
             v == items[i][2]
             st1 == IF k = "dispense_speed"
                    THEN [st EXCEPT !.dispense_flowrate =
                              Some(flowrate_builder(v.max, Some(v.start), NONE, NONE, NONE,
                                                    Some("omni")).val)]
                    ELSE st
             st2 == [st1 EXCEPT !.calibrated_vol = IF k = "volume" THEN Some(v) ELSE NONE]
             st3 == IF k = "depth"
                    THEN MergeDepth(st2, xfer_parse_depth(v, 1, DepthStart))
                    ELSE st2
         IN xfer_dispense_target(items, i + 1, xfer_threshold_item(st3, k, v))

\* a purge that forgets the well_bottom reference
purge_detection_top_only(z) ==
    IF z.reference \in {"well_top"}
    THEN Pop(z, {"detection_method", "detection_threshold", "detection_duration"})
    ELSE z

\* "Purge detection parameters if reference is not liquid surface"
purge_detection(z) ==
    IF z.reference \in {"well_top", "well_bottom"}
    THEN Pop(z, {"detection_method", "detection_threshold", "detection_duration"})
    ELSE z

\* z_position_builder(**z_pos_dict)
z_position_from(z) ==
    z_position_builder(Get(z, "reference"), Get(z, "offset"), Get(z, "detection_method"),
                       Get(z, "detection_threshold"), Get(z, "detection_duration"),
                       NONE, Some("omni"))

\* the filtered record a translator returns: the pipette_params locals that are not
\* None, `flowrate` renamed to `mix_speed` (None when there was no flowrate)
pipette_args(locals, pipette_params) ==
    LET kept == DropNone([k \in pipette_params |-> locals[k]])
    IN Update(Pop(kept, {"flowrate"}),
              [mix_speed |-> IF "flowrate" \in DOMAIN kept THEN kept["flowrate"] ELSE NONE])

xfer_parse_params == {"volume", "aspirate_speed", "dispense_speed", "aspirate_source",
                      "dispense_target", "pre_buffer", "disposal_vol", "transit_vol",
                      "blowout_buffer", "mix_before", "mix_after", "mix_vol",
                      "repetitions", "flowrate", "new_defaults"}

xfer_pipette_params == {"aspirate_flowrate", "dispense_flowrate", "pre_buffer",
                        "disposal_vol", "transit_vol", "blowout_buffer", "primer_vol",
                        "calibrated_vol", "tip_z", "following", "flowrate", "mix_before",
                        "mix_after", "repetitions", "mix_vol", "new_defaults"}

\* a parse_xfer_params that falls back on the nominal volume for calibrated_vol
parse_xfer_params_nominal_fallback(d) ==
    IF ~(DOMAIN d \subseteq xfer_parse_params) THEN Raise("TypeError", "unexpected_keyword")
    ELSE IF "volume" \notin DOMAIN d THEN Raise("TypeError", "missing_volume")
    ELSE
    LET p == Bind(d, xfer_parse_params)
        volume == p.volume[1]
    IN IF ItemsTruthy(p.aspirate_source) /\ ItemsTruthy(p.dispense_target)
       THEN Raise("ValueError", "mutual_exclusion")
       ELSE
       LET pre_buffer == IF p.pre_buffer # NONE THEN p.pre_buffer[1]
                         ELSE xfer_old_pre_buffer(volume)
           disposal_vol == IF p.disposal_vol # NONE THEN p.disposal_vol[1] ELSE uL(0)
           transit_vol == IF p.transit_vol # NONE THEN p.transit_vol[1]
                          ELSE xfer_old_transit_vol(volume)
           st0 == [ParseState([reference |-> "liquid_surface", offset |-> mm(-1),
                               detection_method |-> "capacitance",
                               detection_threshold |->
                                   [mag |-> clld_unit * 63, dim |-> "capacitance"]], TRUE)
                   EXCEPT !.aspirate_flowrate =
                              IF p.aspirate_speed # NONE
                              THEN Some(flowrate_builder(p.aspirate_speed[1], NONE, NONE, NONE,
                                                         NONE, Some("omni")).val)
                              ELSE NONE,
                          !.dispense_flowrate =
                              IF p.dispense_speed # NONE
                              THEN Some(flowrate_builder(p.dispense_speed[1], NONE, NONE, NONE,
                                                         NONE, Some("omni")).val)
                              ELSE NONE]
           st1 == IF ItemsTruthy(p.aspirate_source)
                  THEN xfer_aspirate_source(p.aspirate_source[1], 1, st0) ELSE st0
           st2 == IF ItemsTruthy(p.dispense_target)
                  THEN xfer_dispense_target(p.dispense_target[1], 1, st1) ELSE st1
       IN IF st2.exc # "none" THEN Raise(st2.exc, st2.msg)
          ELSE LET tip_z == z_position_from(purge_detection(st2.z))
               IN IF tip_z.exc # "none" THEN tip_z
                  ELSE Ok(pipette_args(
                          [aspirate_flowrate |-> st2.aspirate_flowrate,
                           dispense_flowrate |-> st2.dispense_flowrate,
                           pre_buffer |-> Some(pre_buffer),
                           disposal_vol |-> Some(disposal_vol),
                           transit_vol |-> Some(transit_vol),
                           blowout_buffer |-> p.blowout_buffer,
                           primer_vol |-> st2.primer_vol,
                           calibrated_vol |-> IF st2.calibrated_vol = NONE THEN Some(volume)
                                             ELSE st2.calibrated_vol,
                           tip_z |-> Some(tip_z.val),
                           following |-> Some(st2.following),
                           flowrate |-> p.flowrate,
                           mix_before |-> p.mix_before,
                           mix_after |-> p.mix_after,
                           repetitions |-> p.repetitions,
                           mix_vol |-> p.mix_vol,
                           new_defaults |-> p.new_defaults],
                          xfer_pipette_params))

parse_xfer_params(d) ==
    IF ~(DOMAIN d \subseteq xfer_parse_params) THEN Raise("TypeError", "unexpected_keyword")
    ELSE IF "volume" \notin DOMAIN d THEN Raise("TypeError", "missing_volume")
    ELSE
    LET p == Bind(d, xfer_parse_params)
        volume == p.volume[1]
    IN IF ItemsTruthy(p.aspirate_source) /\ ItemsTruthy(p.dispense_target)
       THEN Raise("ValueError", "mutual_exclusion")
       ELSE
       LET pre_buffer == IF p.pre_buffer # NONE THEN p.pre_buffer[1]
                         ELSE xfer_old_pre_buffer(volume)
           disposal_vol == IF p.disposal_vol # NONE THEN p.disposal_vol[1] ELSE uL(0)
           transit_vol == IF p.transit_vol # NONE THEN p.transit_vol[1]
                          ELSE xfer_old_transit_vol(volume)
           st0 == [ParseState([reference |-> "liquid_surface", offset |-> mm(-1),
                               detection_method |-> "capacitance",
                               detection_threshold |->
                                   [mag |-> clld_unit * 63, dim |-> "capacitance"]], TRUE)
                   EXCEPT !.aspirate_flowrate =
                              IF p.aspirate_speed # NONE
                              THEN Some(flowrate_builder(p.aspirate_speed[1], NONE, NONE, NONE,
                                                         NONE, Some("omni")).val)
                              ELSE NONE,
                          !.dispense_flowrate =
                              IF p.dispense_speed # NONE
                              THEN Some(flowrate_builder(p.dispense_speed[1], NONE, NONE, NONE,
                                                         NONE, Some("omni")).val)
                              ELSE NONE]
           st1 == IF ItemsTruthy(p.aspirate_source)
                  THEN xfer_aspirate_source(p.aspirate_source[1], 1, st0) ELSE st0
           st2 == IF ItemsTruthy(p.dispense_target)
                  THEN xfer_dispense_target(p.dispense_target[1], 1, st1) ELSE st1
       IN IF st2.exc # "none" THEN Raise(st2.exc, st2.msg)
          ELSE LET tip_z == z_position_from(purge_detection(st2.z))
               IN IF tip_z.exc # "none" THEN tip_z
                  ELSE Ok(pipette_args(
                          [aspirate_flowrate |-> st2.aspirate_flowrate,
                           dispense_flowrate |-> st2.dispense_flowrate,
                           pre_buffer |-> Some(pre_buffer),
                           disposal_vol |-> Some(disposal_vol),
                           transit_vol |-> Some(transit_vol),
                           blowout_buffer |-> p.blowout_buffer,
                           primer_vol |-> st2.primer_vol,
                           calibrated_vol |-> st2.calibrated_vol,
                           tip_z |-> Some(tip_z.val),
                           following |-> Some(st2.following),
                           flowrate |-> p.flowrate,
                           mix_before |-> p.mix_before,
                           mix_after |-> p.mix_after,
                           repetitions |-> p.repetitions,
                           mix_vol |-> p.mix_vol,
                           new_defaults |-> p.new_defaults],
                          xfer_pipette_params))

\* a multi-channel pre-buffer default that grows with the volume
stamp_old_pre_buffer_banded(v) == IF v < uL(10) THEN uL(5) ELSE uL(10)

\* old_pre_buffer of parse_stamp_params
stamp_old_pre_buffer(v) == uL(5)

\* old_transit_vol of parse_stamp_params
stamp_old_transit_vol(v) == uL(1)

\* get_cal_vol of parse_stamp_params; the products are rounded down to the nanolitre
get_cal_vol(shape_format, v) ==
    IF shape_format = Some("SBS384")
    THEN IF v <= 500 THEN (v * 1160) \div 1000
         ELSE IF v <= uL(1) THEN (v * 1240) \div 1000 - 40
         ELSE IF v <= 2500 THEN (v * 1153) \div 1000 + 47
         ELSE IF v <= uL(5) THEN (v * 1048) \div 1000 + 310
         ELSE IF v <= uL(10) THEN (v * 1042) \div 1000 + 340
         ELSE IF v <= uL(15) THEN (v * 1148) \div 1000 - 720
         ELSE (v * 1148) \div 1000 - 720
    ELSE v

RECURSIVE stamp_aspirate_source(_, _, _)
\* `for k, v in aspirate_source.items()` of parse_stamp_params, from item i on
stamp_aspirate_source(items, i, st) ==
    IF i > Len(items) \/ st.exc # "none" THEN st
    ELSE LET k == items[i][1]
             v == items[i][2]
             st1 == IF k = "aspirate_speed"
                    THEN [st EXCEPT !.aspirate_flowrate =
                              Some(flowrate_builder(v.max, Some(v.start), NONE, NONE, NONE,
                                                    Some("omni")).val)]
                    ELSE st
             st2 == [st1 EXCEPT !.calibrated_vol = IF k = "volume" THEN Some(v) ELSE NONE,
                                !.primer_vol = IF k = "primer_vol" THEN Some(v) ELSE NONE]
             st3 == IF k = "depth"
                    THEN MergeDepth(st2, stamp_parse_depth(v, 1, DepthStart))
                    ELSE st2
         IN stamp_aspirate_source(items, i + 1, st3)

RECURSIVE stamp_dispense_target(_, _, _)
\* `for k, v in dispense_target.items()` of parse_stamp_params, from item i on;
\* a dispense_speed item evaluates Unit(["max"]), which Unit rejects
stamp_dispense_target(items, i, st) ==
    IF i > Len(items) \/ st.exc # "none" THEN st
    ELSE LET k == items[i][1]
             v == items[i][2]
             st1 == IF k = "dispense_speed"
                    THEN [st EXCEPT !.exc = "UnitError", !.msg = "Unit_of_list"]
                    ELSE st
             st2 == [st1 EXCEPT !.calibrated_vol = IF k = "volume" THEN Some(v) ELSE NONE]
             st3 == IF k = "depth" /\ st1.exc = "none"
                    THEN MergeDepth(st2, stamp_parse_depth(v, 1, DepthStart))
                    ELSE st2
         IN stamp_dispense_target(items, i + 1, st3)

\* a signature of parse_stamp_params that takes a disposal_vol
stamp_parse_params_with_disposal ==
    {"volume", "aspirate_speed", "dispense_speed", "aspirate_source", "dispense_target",
     "pre_buffer", "disposal_vol", "blowout_buffer", "mix_before", "mix_after", "mix_vol",
     "repetitions", "flowrate", "transit_vol", "shape_format", "new_defaults"}

stamp_parse_params == {"volume", "aspirate_speed", "dispense_speed", "aspirate_source",
                       "dispense_target", "pre_buffer", "blowout_buffer", "mix_before",
                       "mix_after", "mix_vol", "repetitions", "flowrate", "transit_vol",
                       "shape_format", "new_defaults"}

stamp_pipette_params == {"aspirate_flowrate", "dispense_flowrate", "pre_buffer",
                         "blowout_buffer", "primer_vol", "calibrated_vol", "tip_z",
                         "following", "flowrate", "mix_before", "mix_after",
                         "repetitions", "mix_vol", "transit_vol", "new_defaults"}

\* a parse_stamp_params that leaves a blowout_buffer of False alone
parse_stamp_params_blowout_if_absent(d) ==
    IF ~(DOMAIN d \subseteq stamp_parse_params) THEN Raise("TypeError", "unexpected_keyword")
    ELSE IF "volume" \notin DOMAIN d THEN Raise("TypeError", "missing_volume")
    ELSE
    LET p == Bind(d, stamp_parse_params)
        volume == p.volume[1]
    IN IF ItemsTruthy(p.aspirate_source) /\ ItemsTruthy(p.dispense_target)
       THEN Raise("ValueError", "mutual_exclusion")
       ELSE
       LET pre_buffer == IF p.pre_buffer # NONE THEN p.pre_buffer[1]
                         ELSE stamp_old_pre_buffer(volume)
           transit_vol == IF p.transit_vol # NONE THEN p.transit_vol[1]
                          ELSE stamp_old_transit_vol(volume)
           blowout_buffer == IF p.blowout_buffer = NONE /\ pre_buffer > uL(0)
                             THEN Some(TRUE) ELSE p.blowout_buffer
           st0 == [ParseState([reference |-> "well_bottom", offset |-> mm(1)],
                              p.new_defaults = Some(TRUE))
                   EXCEPT !.aspirate_flowrate =
                              IF p.aspirate_speed # NONE
                              THEN Some(flowrate_builder(p.aspirate_speed[1], NONE, NONE, NONE,
                                                         NONE, Some("omni")).val)
                              ELSE NONE,
                          !.dispense_flowrate =
                              IF p.dispense_speed # NONE
                              THEN Some(flowrate_builder(p.dispense_speed[1], NONE, NONE, NONE,
                                                         NONE, Some("omni")).val)
                              ELSE NONE]
           st1 == IF ItemsTruthy(p.aspirate_source)
                  THEN stamp_aspirate_source(p.aspirate_source[1], 1, st0) ELSE st0
           st2 == IF ItemsTruthy(p.dispense_target)
                  THEN stamp_dispense_target(p.dispense_target[1], 1, st1) ELSE st1
       IN IF st2.exc # "none" THEN Raise(st2.exc, st2.msg)
          ELSE LET tip_z == z_position_from(purge_detection(st2.z))
                   calibrated_vol == IF ~UnitTruthy(st2.calibrated_vol)
                                        /\ p.shape_format = Some("SBS386")
                                     THEN Some(get_cal_vol(p.shape_format, volume))
                                     ELSE st2.calibrated_vol
               IN IF tip_z.exc # "none" THEN tip_z
                  ELSE Ok(pipette_args(
                          [aspirate_flowrate |-> st2.aspirate_flowrate,
                           dispense_flowrate |-> st2.dispense_flowrate,
                           pre_buffer |-> Some(pre_buffer),
                           blowout_buffer |-> blowout_buffer,
                           primer_vol |-> st2.primer_vol,
                           calibrated_vol |-> calibrated_vol,
                           tip_z |-> Some(tip_z.val),
                           following |-> Some(st2.following),
                           flowrate |-> p.flowrate,
                           mix_before |-> p.mix_before,
                           mix_after |-> p.mix_after,
                           repetitions |-> p.repetitions,
                           mix_vol |-> p.mix_vol,
                           transit_vol |-> Some(transit_vol),
                           new_defaults |-> p.new_defaults],
                          stamp_pipette_params))

parse_stamp_params(d) ==
    IF ~(DOMAIN d \subseteq stamp_parse_params) THEN Raise("TypeError", "unexpected_keyword")
    ELSE IF "volume" \notin DOMAIN d THEN Raise("TypeError", "missing_volume")
    ELSE
    LET p == Bind(d, stamp_parse_params)
        volume == p.volume[1]
    IN IF ItemsTruthy(p.aspirate_source) /\ ItemsTruthy(p.dispense_target)
       THEN Raise("ValueError", "mutual_exclusion")
       ELSE
       LET pre_buffer == IF p.pre_buffer # NONE THEN p.pre_buffer[1]
                         ELSE stamp_old_pre_buffer(volume)
           transit_vol == IF p.transit_vol # NONE THEN p.transit_vol[1]
                          ELSE stamp_old_transit_vol(volume)
           blowout_buffer == IF p.blowout_buffer # Some(TRUE) /\ pre_buffer > uL(0)
                             THEN Some(TRUE) ELSE p.blowout_buffer
           st0 == [ParseState([reference |-> "well_bottom", offset |-> mm(1)],
                              p.new_defaults = Some(TRUE))
                   EXCEPT !.aspirate_flowrate =
                              IF p.aspirate_speed # NONE
                              THEN Some(flowrate_builder(p.aspirate_speed[1], NONE, NONE, NONE,
                                                         NONE, Some("omni")).val)
                              ELSE NONE,
                          !.dispense_flowrate =
                              IF p.dispense_speed # NONE
                              THEN Some(flowrate_builder(p.dispense_speed[1], NONE, NONE, NONE,
                                                         NONE, Some("omni")).val)
                              ELSE NONE]
           st1 == IF ItemsTruthy(p.aspirate_source)
                  THEN stamp_aspirate_source(p.aspirate_source[1], 1, st0) ELSE st0
           st2 == IF ItemsTruthy(p.dispense_target)
                  THEN stamp_dispense_target(p.dispense_target[1], 1, st1) ELSE st1
       IN IF st2.exc # "none" THEN Raise(st2.exc, st2.msg)
          ELSE LET tip_z == z_position_from(purge_detection(st2.z))
                   calibrated_vol == IF ~UnitTruthy(st2.calibrated_vol)
                                        /\ p.shape_format = Some("SBS386")
                                     THEN Some(get_cal_vol(p.shape_format, volume))
                                     ELSE st2.calibrated_vol
               IN IF tip_z.exc # "none" THEN tip_z
                  ELSE Ok(pipette_args(
                          [aspirate_flowrate |-> st2.aspirate_flowrate,
                           dispense_flowrate |-> st2.dispense_flowrate,
                           pre_buffer |-> Some(pre_buffer),
                           blowout_buffer |-> blowout_buffer,
                           primer_vol |-> st2.primer_vol,
                           calibrated_vol |-> calibrated_vol,
                           tip_z |-> Some(tip_z.val),
                           following |-> Some(st2.following),
                           flowrate |-> p.flowrate,
                           mix_before |-> p.mix_before,
                           mix_after |-> p.mix_after,
                           repetitions |-> p.repetitions,
                           mix_vol |-> p.mix_vol,
                           transit_vol |-> Some(transit_vol),
                           new_defaults |-> p.new_defaults],
                          stamp_pipette_params))

-----------------------------------------------------------------------------
(* Compatibility shims.  `l` is the record of the shim's named parameters  *)
(* (None when not passed) and `mix_kwargs` the keyword dict of the rest.   *)

\* truth value of the value of a named shim parameter
ShimTruthy(k, o) ==
    IF k \in {"aspirate_source", "dispense_target"} THEN ItemsTruthy(o)
    ELSE IF k \in {"blowout_buffer", "new_defaults", "mix_before", "mix_after"}
    THEN o = Some(TRUE)
    ELSE IF k \in {"volume", "repetitions"} THEN IntTruthy(o)
    ELSE o # NONE

\* {k: v for k, v in list(locals().items()) if v}
TruthyLocals(l) == [k \in {k \in DOMAIN l : ShimTruthy(k, l[k])} |-> l[k]]

\* a "Handle mix_kwargs" block in which a plain repetitions / flowrate that is passed
\* wins over the phase's own
handle_mix_kwargs_plain_wins(arg_dict, mix_kwargs, dropped, repetitions_x, flowrate_x) ==
    LET merged == Pop(Update(arg_dict, mix_kwargs), dropped)
        reps == IF repetitions_x \in DOMAIN merged /\ "repetitions" \notin DOMAIN merged
                THEN Update(Pop(merged, {repetitions_x}), [repetitions |-> merged[repetitions_x]])
                ELSE Pop(merged, {repetitions_x})
    IN IF flowrate_x \in DOMAIN reps /\ "flowrate" \notin DOMAIN reps
       THEN Update(Pop(reps, {flowrate_x}), [flowrate |-> reps[flowrate_x]])
       ELSE Pop(reps, {flowrate_x})

\* the "Handle mix_kwargs" block of a single-channel shim: merge the bundle, drop the
\* parameters of the other phase, rename this phase's repetitions and flowrate
handle_mix_kwargs(arg_dict, mix_kwargs, dropped, repetitions_x, flowrate_x) ==
    LET merged == Pop(Update(arg_dict, mix_kwargs), dropped)
        reps == IF repetitions_x \in DOMAIN merged
                THEN Update(Pop(merged, {repetitions_x}), [repetitions |-> merged[repetitions_x]])
                ELSE merged
    IN IF flowrate_x \in DOMAIN reps
       THEN Update(Pop(reps, {flowrate_x}), [flowrate |-> reps[flowrate_x]])
       ELSE reps

\* helper(volume, **translator(**arg_dict)): the binding of the translator's record to
\* the helper's signature, the translator's exception when it raised
bind_kwargs(parsed, params) ==
    IF parsed.exc # "none" THEN parsed
    ELSE IF ~(DOMAIN parsed.val \subseteq params) THEN Raise("TypeError", "unexpected_keyword")
    ELSE Ok(Bind(parsed.val, params))

old_xfer_asp_transports(l, mix_kwargs) ==
    LET arg_dict == Pop(DropNone(l), {"dispense_target", "dispense_speed", "blowout_buffer"})
        merged == handle_mix_kwargs(arg_dict, mix_kwargs,
                                    {"mix_after", "flowrate_a", "repetitions_a"},
                                    "repetitions_b", "flowrate_b")
        kwargs == bind_kwargs(parse_xfer_params(merged), xfer_asp_params)
    IN IF kwargs.exc # "none" THEN kwargs ELSE Ok(xfer_asp_helper(l.volume[1], kwargs.val))

\* a dispense shim that forgets to pop aspirate_source
old_xfer_dsp_transports_keeps_source(l, mix_kwargs) ==
    LET arg_dict == Pop(TruthyLocals(l), {"aspirate_speed"})
        merged == IF DOMAIN mix_kwargs # {}
                  THEN handle_mix_kwargs(arg_dict, mix_kwargs,
                                         {"mix_before", "flowrate_b", "repetitions_b"},
                                         "repetitions_a", "flowrate_a")
                  ELSE arg_dict
        kwargs == bind_kwargs(parse_xfer_params(merged), xfer_dsp_params)
    IN IF kwargs.exc # "none" THEN kwargs ELSE Ok(xfer_dsp_helper(l.volume[1], kwargs.val))

old_xfer_dsp_transports(l, mix_kwargs) ==
    LET arg_dict == Pop(TruthyLocals(l), {"aspirate_source", "aspirate_speed"})
        merged == IF DOMAIN mix_kwargs # {}
                  THEN handle_mix_kwargs(arg_dict, mix_kwargs,
                                         {"mix_before", "flowrate_b", "repetitions_b"},
                                         "repetitions_a", "flowrate_a")
                  ELSE arg_dict
        kwargs == bind_kwargs(parse_xfer_params(merged), xfer_dsp_params)
    IN IF kwargs.exc # "none" THEN kwargs ELSE Ok(xfer_dsp_helper(l.volume[1], kwargs.val))

old_stamp_dsp_transports(l) ==
    LET arg_dict == Pop(TruthyLocals(l), {"aspirate_source", "aspirate_speed", "mix_before"})
        kwargs == bind_kwargs(parse_stamp_params(arg_dict), stamp_dsp_params)
    IN IF kwargs.exc # "none" THEN kwargs ELSE Ok(stamp_dsp_helper(l.volume[1], kwargs.val))

old_stamp_asp_transports(l) ==
    LET arg_dict == Pop(DropNone(l), {"dispense_target", "dispense_speed", "mix_after",
                                      "blowout_buffer"})
        old_params == parse_stamp_params(arg_dict)
        kwargs == bind_kwargs(IF old_params.exc # "none" THEN old_params
                              ELSE Ok(Pop(old_params.val, {"following"})),
                              stamp_asp_params)
    IN IF kwargs.exc # "none" THEN kwargs ELSE Ok(stamp_asp_helper(l.volume[1], kwargs.val))

-----------------------------------------------------------------------------
(* The calls.  Quantities are passed the way the docstrings show them, as  *)
(* "n:unit" strings, so a quantity that is passed is truthy.               *)

\* the largest number of mix repetitions a caller asks for
MaxReps == 3

Opt(S) == {NONE} \cup {Some(x) : x \in S}

Reps == Opt(0..MaxReps)

\* the z-position parse_xfer_params builds when no depth is given
default_xfer_tip_z ==
    z_position_builder(Some("liquid_surface"), Some(mm(-1)), Some("capacitance"),
                       Some([mag |-> clld_unit * 63, dim |-> "capacitance"]),
                       NONE, NONE, Some("omni")).val

\* the mixing parameters of an assembler call: they vary only when the mix is on
MixArgs == {[mix_speed |-> sv[1], repetitions |-> r, mix_vol |-> sv[2]] :
            sv \in {<<NONE, NONE>>, <<Some(uL(50)), Some(uL(7))>>}, r \in Reps}

NoMixArgs == [mix_speed |-> NONE, repetitions |-> NONE, mix_vol |-> NONE]

MixArgsIf(mix) == IF mix = Some(TRUE) THEN MixArgs ELSE {NoMixArgs}

\* the canonical parameters common to the four assemblers
CommonArgs == [pre_buffer : {Some(uL(0)), Some(uL(15))},
               transit_vol : {Some(uL(0)), Some(uL(2))},
               tip_z : {NONE, Some(default_xfer_tip_z)},
               calibrated_vol : Opt({uL(48)}),
               new_defaults : Opt({TRUE})]

\* the record of optionals f extended to the parameters of a signature
Full(f, params) == [k \in params |-> IF k \in DOMAIN f THEN f[k] ELSE NONE]

Flowrates == Opt({[target |-> uL(100)]})

AsmVolumes == {uL(9)}

Init == op = "init" /\ args = NONE /\ ret = NONE

call_mix_transports_helper ==
    /\ op = "init"
    /\ \E volume \in {uL(0), uL(7), uL(50)}, speed \in Opt({uL(50)}), repetitions \in Reps,
          z_height \in Opt({500, mm(1)}) :
        /\ op' = "mix_transports_helper"
        /\ args' = [volume |-> volume, speed |-> speed, repetitions |-> repetitions,
                    z_height |-> z_height]
        /\ ret' = Ok(mix_transports_helper(volume, speed, repetitions, z_height, NONE))

call_xfer_asp_helper ==
    /\ op = "init"
    /\ \E volume \in AsmVolumes, c \in CommonArgs,
          x \in [aspirate_flowrate : Flowrates, disposal_vol : {Some(uL(0)), Some(uL(10))},
                 primer_vol : Opt({uL(3)}), following : Opt({TRUE}),
                 mix_before : Opt({TRUE})] :
        \E m \in MixArgsIf(x.mix_before) :
           LET a == Full(Update(Update(c, m), x), xfer_asp_params)
           IN /\ op' = "xfer_asp_helper"
              /\ args' = [volume |-> volume, a |-> a]
              /\ ret' = Ok(xfer_asp_helper(volume, a))

call_xfer_dsp_helper ==
    /\ op = "init"
    /\ \E volume \in AsmVolumes, c \in CommonArgs,
          x \in [dispense_flowrate : Flowrates, disposal_vol : {Some(uL(0))},
                 blowout_buffer : Opt(BOOLEAN), following : Opt({TRUE}),
                 mix_after : Opt({TRUE})] :
        \E m \in MixArgsIf(x.mix_after) :
           LET a == Full(Update(Update(c, m), x), xfer_dsp_params)
           IN /\ op' = "xfer_dsp_helper"
              /\ args' = [volume |-> volume, a |-> a]
              /\ ret' = Ok(xfer_dsp_helper(volume, a))

call_stamp_asp_helper ==
    /\ op = "init"
    /\ \E volume \in AsmVolumes, c \in CommonArgs,
          x \in [aspirate_flowrate : Flowrates, primer_vol : Opt({uL(3)}),
                 blowout_buffer : Opt({TRUE}), mix_before : Opt({TRUE})] :
        \E m \in MixArgsIf(x.mix_before) :
           LET a == Full(Update(Update(c, m), x), stamp_asp_params)
           IN /\ op' = "stamp_asp_helper"
              /\ args' = [volume |-> volume, a |-> a]
              /\ ret' = Ok(stamp_asp_helper(volume, a))

call_stamp_dsp_helper ==
    /\ op = "init"
    /\ \E volume \in AsmVolumes, c \in CommonArgs,
          x \in [dispense_flowrate : Flowrates, blowout_buffer : Opt(BOOLEAN),
                 following : Opt({TRUE}), mix_after : Opt({TRUE})] :
        \E m \in MixArgsIf(x.mix_after) :
           LET a == Full(Update(Update(c, m), x), stamp_dsp_params)
           IN /\ op' = "stamp_dsp_helper"
              /\ args' = [volume |-> volume, a |-> a]
              /\ ret' = Ok(stamp_dsp_helper(volume, a))

\* legacy records, as item sequences
Item(k, v) == <<k, v>>

Depth(method) == << Item("depth", << Item("method", method), Item("distance", mm(2)) >>) >>

DepthMethods == {"ll_following", "ll_top", "ll_bottom", "ll_surface"}

Sources ==
    { << >>,
      << Item("volume", uL(48)) >>,
      << Item("primer_vol", uL(3)) >>,
      << Item("aspirate_speed", [max |-> uL(80), start |-> uL(40)]) >>,
      << Item("clld_sensitivity", 40) >>,
      << Item("plld_threshold", [sensitivity |-> 10, duration |-> 2]) >>,
      << Item("depth", << Item("method", "ll_surface"), Item("pressure", "pressure") >>) >>,
      << Item("volume", uL(48)), Item("primer_vol", uL(3)) >>,
      << Item("primer_vol", uL(3)), Item("volume", uL(48)) >> }
    \cup {Depth(m) : m \in DepthMethods}
    \cup {Depth(m) \o << Item("clld_sensitivity", 40) >> : m \in {"ll_top", "ll_surface"}}
    \cup { << Item("depth", << Item("method", "ll_following"),
                              Item("capacitive", "capacitive") >>) >>,
           << Item("depth", << Item("method", "ll_top"), Item("pressure", "pressure") >>) >>,
           << Item("clld_sensitivity", 40) >> \o Depth("ll_bottom"),
           Depth("ll_bottom")
               \o << Item("plld_threshold", [sensitivity |-> 10, duration |-> 2]) >> }

Targets ==
    { << >>,
      << Item("volume", uL(48)) >>,
      << Item("dispense_speed", [max |-> uL(80), start |-> uL(40)]) >>,
      << Item("clld_sensitivity", 40) >>,
      << Item("volume", uL(48)), Item("dispense_speed", [max |-> uL(80), start |-> uL(40)]) >> }
    \cup {Depth(m) : m \in DepthMethods}

BandVolumes == {uL(v) : v \in {5, 9, 10, 25, 26, 50, 75, 76, 100, 101, 150}}

Speeds == Opt({uL(100)})

\* a family of calls: the parameters of f vary, every other one is not passed
Calls(params, F) == {Full(f, params) : f \in F}

xfer_parse_calls ==
    Calls(xfer_parse_params,
          [volume : Opt(BandVolumes), pre_buffer : Opt({uL(0), uL(15)}),
           transit_vol : Opt({uL(0), uL(3)}), disposal_vol : Opt({uL(10)}),
           new_defaults : Opt({TRUE})])
    \cup Calls(xfer_parse_params,
               [volume : {Some(uL(50))}, aspirate_source : Opt(Sources),
                dispense_target : Opt(Targets), aspirate_speed : Speeds,
                dispense_speed : Speeds, blowout_buffer : Opt(BOOLEAN)])
    \cup Calls(xfer_parse_params,
               [volume : {Some(uL(50))}, mix_before : Opt(BOOLEAN), mix_after : Opt(BOOLEAN),
                mix_vol : Opt({uL(7)}), repetitions : Reps, flowrate : Speeds])

ShapeFormats == Opt({"SBS96", "SBS384", "SBS386"})

stamp_parse_calls ==
    Calls(stamp_parse_params,
          [volume : Opt({uL(0), uL(5), uL(20)}), pre_buffer : Opt({uL(0), uL(15)}),
           transit_vol : Opt({uL(0), uL(3)}), blowout_buffer : Opt(BOOLEAN),
           shape_format : ShapeFormats, new_defaults : Opt({TRUE})])
    \cup Calls(stamp_parse_params,
               [volume : {Some(uL(20))}, aspirate_source : Opt(Sources),
                dispense_target : Opt(Targets), aspirate_speed : Speeds,
                dispense_speed : Speeds, new_defaults : Opt({TRUE})])
    \cup Calls(stamp_parse_params,
               [volume : {Some(uL(20))}, mix_before : Opt(BOOLEAN), mix_after : Opt(BOOLEAN),
                mix_vol : Opt({uL(7)}), repetitions : Reps, flowrate : Speeds])

call_parse_xfer_params ==
    /\ op = "init"
    /\ \E l \in xfer_parse_calls :
        /\ op' = "parse_xfer_params"
        /\ args' = l
        /\ ret' = parse_xfer_params(DropNone(l))

call_parse_stamp_params ==
    /\ op = "init"
    /\ \E l \in stamp_parse_calls :
        /\ op' = "parse_stamp_params"
        /\ args' = l
        /\ ret' = parse_stamp_params(DropNone(l))

xfer_shim_params == {"volume", "aspirate_speed", "dispense_speed", "aspirate_source",
                     "dispense_target", "pre_buffer", "disposal_vol", "transit_vol",
                     "blowout_buffer", "new_defaults"}

stamp_shim_params == xfer_shim_params \cup {"mix_before", "mix_after", "mix_vol",
                                            "repetitions", "flowrate", "shape_format"}

\* a keyword that is absent, passed as None, or passed with a value of S
Kw(S) == {NONE, Some(NONE)} \cup {Some(Some(x)) : x \in S}

\* the keyword dict of the keywords of r that are passed
KwDict(r) == [k \in {k \in DOMAIN r : r[k] # NONE} |-> r[k][1]]

\* the **mix_kwargs bundles of the single-channel shims
MixKwargs ==
    {KwDict(r) : r \in [mix_before : Kw({TRUE}), mix_after : Kw({TRUE}),
                        mix_vol : {NONE, Some(Some(uL(7)))},
                        repetitions : {NONE, Some(Some(1))},
                        repetitions_a : {NONE, Some(Some(2))},
                        repetitions_b : Kw({0, MaxReps}),
                        flowrate : {NONE, Some(Some(uL(50)))},
                        flowrate_a : {NONE, Some(Some(uL(60)))},
                        flowrate_b : {NONE, Some(Some(uL(70)))}]}

xfer_shim_calls ==
    {[l |-> l, mix_kwargs |-> << >>] :
        l \in Calls(xfer_shim_params,
                    [volume : {Some(uL(9)), Some(uL(50)), Some(uL(101))},
                     aspirate_speed : Speeds, dispense_speed : Speeds,
                     pre_buffer : Opt({uL(0), uL(15)}), transit_vol : Opt({uL(0), uL(3)}),
                     disposal_vol : Opt({uL(10)}), blowout_buffer : Opt(BOOLEAN),
                     new_defaults : Opt(BOOLEAN)])
             \cup Calls(xfer_shim_params,
                        [volume : {Some(uL(50))}, aspirate_source : Opt(Sources),
                         dispense_target : Opt(Targets), aspirate_speed : Speeds,
                         dispense_speed : Speeds])}
    \cup {[l |-> l, mix_kwargs |-> mk] :
             l \in Calls(xfer_shim_params,
                         [volume : {Some(uL(50))},
                          aspirate_source : Opt({<< Item("volume", uL(48)) >>}),
                          dispense_target : Opt({<< Item("volume", uL(48)) >>})]),
             mk \in MixKwargs}

stamp_shim_calls ==
    Calls(stamp_shim_params,
          [volume : {Some(uL(20))}, aspirate_speed : Speeds, dispense_speed : Speeds,
           pre_buffer : Opt({uL(0), uL(15)}), transit_vol : Opt({uL(0), uL(3)}),
           disposal_vol : Opt({uL(10)}), blowout_buffer : Opt(BOOLEAN),
           new_defaults : Opt(BOOLEAN), shape_format : ShapeFormats])
    \cup Calls(stamp_shim_params,
               [volume : {Some(uL(20))}, aspirate_source : Opt(Sources),
                dispense_target : Opt(Targets), aspirate_speed : Speeds,
                dispense_speed : Speeds, new_defaults : Opt({TRUE})])
    \cup Calls(stamp_shim_params,
               [volume : {Some(uL(20))}, mix_before : Opt(BOOLEAN), mix_after : Opt(BOOLEAN),
                mix_vol : Opt({uL(7)}), repetitions : Reps, flowrate : Speeds,
                new_defaults : Opt({TRUE})])

call_old_xfer_asp_transports ==
    /\ op = "init"
    /\ \E c \in xfer_shim_calls :
        /\ op' = "old_xfer_asp_transports"
        /\ args' = c
        /\ ret' = old_xfer_asp_transports(c.l, c.mix_kwargs)

call_old_xfer_dsp_transports ==
    /\ op = "init"
    /\ \E c \in xfer_shim_calls :
        /\ op' = "old_xfer_dsp_transports"
        /\ args' = c
        /\ ret' = old_xfer_dsp_transports(c.l, c.mix_kwargs)

call_old_stamp_asp_transports ==
    /\ op = "init"
    /\ \E l \in stamp_shim_calls :
        /\ op' = "old_stamp_asp_transports"
        /\ args' = [l |-> l]
        /\ ret' = old_stamp_asp_transports(l)

call_old_stamp_dsp_transports ==
    /\ op = "init"
    /\ \E l \in stamp_shim_calls :
        /\ op' = "old_stamp_dsp_transports"
        /\ args' = [l |-> l]
        /\ ret' = old_stamp_dsp_transports(l)

\* the calls of the leaf builders: each argument is absent, well typed (a falsy value
\* and a value beyond each limit among them) or wrongly typed

\* the largest number of rows and columns a caller asks for, one above the SBS384 limits
MaxRows == 17

MaxColumns == 25

shape_calls ==
    [rows : {PyInt(n) : n \in -1..MaxRows} \cup {PyStr("1"), PyFloat(1)},
     columns : {PyInt(n) : n \in -1..MaxColumns} \cup {PyStr("1"), PyFloat(1)},
     format : {PyStr("SBS96"), PyStr("SBS384"), PyStr("SBS24")}]

call_shape_builder ==
    /\ op = "init"
    /\ \E a \in shape_calls :
        /\ op' = "shape_builder"
        /\ args' = a
        /\ ret' = shape_builder(a.rows, a.columns, a.format)

location_calls ==
    [location : {PyNone, PyStr("A1"), PyStr(""), Val("Well", 1, "A1"), PyInt(1)},
     transports : {PyNone, PyList(0), PyList(1), PyDict(0)},
     cycles : {PyNone, PyInt(-1), PyInt(0), PyInt(1), PyStr("1"), PyStr("")},
     x_object_volume : {PyNone, PyList(0), PyList(1), PyStr("1:ul")}]

call_location_builder ==
    /\ op = "init"
    /\ \E a \in location_calls :
        /\ op' = "location_builder"
        /\ args' = a
        /\ ret' = location_builder(a.location, a.transports, a.cycles, a.x_object_volume)

transport_calls ==
    [volume : {PyNone, PyUnit(uL(0), "microliter"), PyUnit(uL(5), "microliter")},
     flowrate : {PyNone, PyDict(0), PyDict(1), PyStr("1")},
     delay_time : {PyNone, PyUnit(0, "second"), PyUnit(1, "second")},
     mode_params : {PyNone, PyDict(0), PyDict(1), PyStr("1")},
     x_calibrated_volume : {PyNone, PyUnit(uL(0), "microliter"), PyUnit(uL(5), "microliter")}]

call_transport_builder ==
    /\ op = "init"
    /\ \E a \in transport_calls :
        /\ op' = "transport_builder"
        /\ args' = a
        /\ ret' = transport_builder_typed(a.volume, a.flowrate, a.delay_time, a.mode_params,
                                          a.x_calibrated_volume)

Devices == {PyNone, PyStr("omni"), PyStr("bravo"), PyStr("hamilton")}

flowrate_calls ==
    [target : {PyUnit(uL(100), "microliter/second")},
     initial : {PyNone, PyUnit(uL(50), "microliter/second")},
     cutoff : {PyNone, PyUnit(uL(20), "microliter/second")},
     x_acceleration : {PyNone, PyInt(5), PyStr("1")},
     x_deceleration : {PyNone, PyInt(5), PyStr("1")},
     device : Devices]

call_flowrate_builder ==
    /\ op = "init"
    /\ \E a \in flowrate_calls :
        /\ op' = "flowrate_builder"
        /\ args' = a
        /\ ret' = flowrate_builder_typed(a.target, a.initial, a.cutoff, a.x_acceleration,
                                         a.x_deceleration, a.device)

mode_params_calls ==
    [liquid_class : {PyNone, PyStr(""), PyStr("air"), PyStr("default"), PyStr("DMSO"),
                     PyInt(0), PyInt(1)},
     tip_x : {PyNone, PyInt(-2), PyInt(-1), PyInt(0), PyInt(1), PyInt(2), PyFloat(2),
              PyStr(""), PyStr("1")},
     tip_y : {PyNone, PyInt(-2), PyInt(1), PyFloat(0), PyStr("1")},
     tip_z : {PyNone, PyDict(0), PyDict(1), PyList(0), PyStr("1")}]

call_mode_params_builder ==
    /\ op = "init"
    /\ \E a \in mode_params_calls :
        /\ op' = "mode_params_builder"
        /\ args' = a
        /\ ret' = mode_params_builder_typed(a.liquid_class, a.tip_x, a.tip_y, a.tip_z)

\* calls that pass the type checks, and calls with wrongly typed arguments
z_position_calls ==
    [reference : {PyNone, PyStr(""), PyStr("well_top"), PyStr("well_bottom"),
                  PyStr("liquid_surface"), PyStr("preceding_position"), PyStr("well_middle")},
     offset : {PyNone, PyUnit(mm(-1), "millimeter")},
     detection_method : {PyNone, PyStr(""), PyStr("tracked"), PyStr("pressure"),
                         PyStr("capacitance"), PyStr("sonar")},
     detection_threshold : {PyNone, PyUnit(0, "capacitance"), PyUnit(clld_unit * 63, "capacitance")},
     detection_duration : {PyNone, PyUnit(0, "second"), PyUnit(5, "second")},
     fallback : {PyNone},
     device : Devices]
    \cup
    [reference : {PyStr("well_top"), PyInt(1)},
     offset : {PyNone, PyInt(1)},
     detection_method : {PyNone, PyStr("tracked"), PyInt(1)},
     detection_threshold : {PyNone, PyInt(1)},
     detection_duration : {PyNone},
     fallback : {PyNone, PyDict(0), PyDict(1), PyInt(1)},
     device : {PyStr("omni"), PyInt(1)}]

call_z_position_builder ==
    /\ op = "init"
    /\ \E a \in z_position_calls :
        /\ op' = "z_position_builder"
        /\ args' = a
        /\ ret' = z_position_builder_typed(a.reference, a.offset, a.detection_method,
                                           a.detection_threshold, a.detection_duration,
                                           a.fallback, a.device)

Next ==
    \/ call_mix_transports_helper
    \/ call_xfer_asp_helper
    \/ call_xfer_dsp_helper
    \/ call_stamp_asp_helper
    \/ call_stamp_dsp_helper
    \/ call_parse_xfer_params
    \/ call_parse_stamp_params
    \/ call_old_xfer_asp_transports
    \/ call_old_xfer_dsp_transports
    \/ call_old_stamp_asp_transports
    \/ call_old_stamp_dsp_transports
    \/ call_shape_builder
    \/ call_location_builder
    \/ call_transport_builder
    \/ call_flowrate_builder
    \/ call_mode_params_builder
    \/ call_z_position_builder

Spec == Init /\ [][Next]_vars

-----------------------------------------------------------------------------
(* Reading a transport list: what each transport does, and where *)

\* the position_z of a transport, None when it has none
TipZ(t) == IF "position_z" \in DOMAIN t.mode_params.tip_position
           THEN Some(t.mode_params.tip_position.position_z) ELSE NONE

IsAir(t) == "liquid_class" \in DOMAIN t.mode_params /\ t.mode_params.liquid_class = "air"

\* a transport read as a step: liquid moved (signed volume), air moved (signed
\* calibrated volume, liquid class air) or a bare tip movement
Step(t) ==
    IF "volume" \in DOMAIN t /\ ~IsAir(t)
    THEN [kind |-> "liquid", vol |-> t.volume, z |-> TipZ(t)]
    ELSE IF DOMAIN t = {"mode_params", "x_calibrated_volume"} /\ IsAir(t)
    THEN [kind |-> "air", vol |-> t.x_calibrated_volume, z |-> TipZ(t)]
    ELSE IF DOMAIN t = {"mode_params"} /\ ~IsAir(t)
    THEN [kind |-> "move", vol |-> 0, z |-> TipZ(t)]
    ELSE [kind |-> "other", vol |-> 0, z |-> TipZ(t)]

Steps(list) == [i \in 1..Len(list) |-> Step(list[i])]

Liquid(vol, z) == [kind |-> "liquid", vol |-> vol, z |-> Some(z)]

Air(vol, z) == [kind |-> "air", vol |-> vol, z |-> Some(z)]

Move(z) == [kind |-> "move", vol |-> 0, z |-> z]

At(reference, offset) == [reference |-> reference, offset |-> offset]

Preceding == [reference |-> "preceding_position"]

Tracked == [reference |-> "liquid_surface", offset |-> mm(-1),
            detection |-> [method |-> "tracked"]]

Returned == ret.exc = "none"

MutualExclusion == ret.exc = "ValueError" /\ ret.msg = "mutual_exclusion"

NonEmpty(o) == o # NONE /\ o[1] # << >>

-----------------------------------------------------------------------------
(* C1 *)

C1_Call ==
    /\ op = "old_xfer_asp_transports"
    /\ args.mix_kwargs = << >>
    /\ args.l = Full([volume |-> Some(uL(50)), aspirate_speed |-> Some(uL(100))],
                     xfer_shim_params)

\* C1 as the spec states it: old_xfer_asp_transports(volume=50 uL, aspirate_speed=100 uL/s)
\* returns exactly five transports, the pre-buffer air gap of -15 uL first, one aspirate
\* of -(50+5) uL at the derived flow-rate, one +5 uL primer return, the 2 uL transit
\* air gap last
C1_FiveTransports ==
    C1_Call =>
        /\ Returned
        /\ Len(ret.val) = 5
        /\ Step(ret.val[1]).kind = "air" /\ Step(ret.val[1]).vol = -uL(15)
        /\ Step(ret.val[Len(ret.val)]).kind = "air"
        /\ Step(ret.val[Len(ret.val)]).vol = -uL(2)

\* C1 (amended): the call returns exactly six transports: the pre-buffer air gap of
\* -15 uL above well_top, the move to the sensing tip_z, one aspirate of -(50+5) uL at
\* the flow-rate derived from aspirate_speed, one +5 uL primer return, a move above
\* well_top and last the 2 uL transit air gap; there is no mix step
C1_SixTransports ==
    C1_Call =>
        /\ Returned
        /\ Steps(ret.val) = << Air(-uL(15), At("well_top", mm(1))),
                               Move(Some(default_xfer_tip_z)),
                               Liquid(-(uL(50) + uL(5)), Tracked),
                               Liquid(uL(5), Preceding),
                               Move(Some(At("well_top", mm(1)))),
                               Air(-uL(2), Preceding) >>
        /\ ret.val[3].flowrate = [target |-> uL(100)]
        /\ ret.val[4].flowrate = [target |-> uL(100)]

C1_Witness == C1_Call /\ Returned /\ Len(ret.val) = 6

-----------------------------------------------------------------------------
(* C2 *)

\* the banding the spec states
C2_Band(v) ==
    IF v < uL(10) THEN uL(5)
    ELSE IF v <= uL(25) THEN uL(10)
    ELSE IF v <= uL(75) THEN uL(15)
    ELSE IF v <= uL(100) THEN uL(20)
    ELSE uL(25)

C2_Points == << <<9, 5>>, <<25, 10>>, <<75, 15>>, <<100, 20>>, <<101, 25>> >>

\* C2: when pre_buffer is not supplied parse_xfer_params sets it from the nominal volume
\* by the five bands (9->5, 25->10, 75->15, 100->20, 101->25), the value never decreases
\* as the volume grows, and a transit volume not supplied becomes 2 uL
C2_PreBufferBands ==
    (op = "parse_xfer_params" /\ Returned) =>
        /\ args.pre_buffer = NONE =>
            /\ ret.val.pre_buffer = Some(C2_Band(args.volume[1]))
            /\ \A i \in 1..Len(C2_Points) :
                   args.volume = Some(uL(C2_Points[i][1]))
                       => ret.val.pre_buffer = Some(uL(C2_Points[i][2]))
            /\ \A w \in BandVolumes :
                   w <= args.volume[1] =>
                       parse_xfer_params(DropNone([args EXCEPT !.volume = Some(w)]))
                           .val.pre_buffer[1] <= ret.val.pre_buffer[1]
        /\ args.transit_vol = NONE => ret.val.transit_vol = Some(uL(2))

C2_Witness ==
    /\ op = "parse_xfer_params" /\ Returned
    /\ args.pre_buffer = NONE /\ args.transit_vol = NONE
    /\ args.volume = Some(uL(101)) /\ ret.val.pre_buffer = Some(uL(25))

-----------------------------------------------------------------------------
(* C3 *)

\* C3: parse_xfer_params and parse_stamp_params raise the mutual-exclusion ValueError
\* whenever aspirate_source and dispense_target are both non-empty, whatever the other
\* arguments would lead to, and never raise it when at most one of them is non-empty
C3_MutualExclusion ==
    op \in {"parse_xfer_params", "parse_stamp_params"} /\ args.volume # NONE =>
        (NonEmpty(args.aspirate_source) /\ NonEmpty(args.dispense_target)) = MutualExclusion

C3_Witness ==
    /\ op = "parse_stamp_params"
    /\ args.aspirate_source =
           Some(<< Item("depth", << Item("method", "ll_surface"),
                                    Item("pressure", "pressure") >>) >>)
    /\ NonEmpty(args.dispense_target)
    /\ MutualExclusion

-----------------------------------------------------------------------------
(* C4 *)

\* the mix cycles: r times an aspirate of v then a dispense of v, where the tip is
MixCycles(v, r) ==
    [i \in 1..(2 * r) |-> Liquid(IF i % 2 = 1 THEN -v ELSE v, Preceding)]

\* the positioning transport of a mix that starts at a height above well_bottom
MixStart(z_height) ==
    IF z_height = NONE THEN << >>
    ELSE << Move(Some(At("well_bottom", z_height[1]))) >>

-----------------------------------------------------------------------------
(* C5 - C8: the step order of the four assemblers *)

\* the mix sequence a flag turns on: the cycles of mix_vol (half the volume when not
\* given), repetitions times (10 when not given), after the start positioning
MixSteps(flag, a, volume, z_height) ==
    IF flag = Some(TRUE)
    THEN MixStart(z_height)
         \o MixCycles(IF a.mix_vol # NONE THEN a.mix_vol[1] ELSE volume \div 2,
                      IF IntTruthy(a.repetitions) THEN a.repetitions[1] ELSE 10)
    ELSE << >>

FollowingZ(a) == IF a.following = Some(TRUE) THEN Tracked ELSE Preceding

\* the blow-out: re-position, then expel the pre-buffer as air
BlowoutSteps(a) ==
    IF a.blowout_buffer = Some(TRUE) /\ a.pre_buffer[1] > 0
    THEN << Move(Some(IF a.new_defaults = Some(TRUE) THEN At("well_top", mm(-2))
                      ELSE At("well_bottom", mm(1)))),
            Air(a.pre_buffer[1], Preceding) >>
    ELSE << >>

C6_XferDspOrder ==
    op = "xfer_dsp_helper" =>
        LET a == args.a
        IN Steps(ret.val) =
               (IF a.transit_vol[1] > 0
                THEN << Air(a.transit_vol[1], At("well_top", mm(1))) >> ELSE << >>)
               \o << Move(a.tip_z), Liquid(args.volume, FollowingZ(a)) >>
               \o MixSteps(a.mix_after, a, args.volume, Some(500))
               \o BlowoutSteps(a)

C6_Witness ==
    /\ op = "xfer_dsp_helper"
    /\ args.a.transit_vol[1] > 0 /\ args.a.following = Some(TRUE)
    /\ args.a.mix_after = Some(TRUE) /\ args.a.repetitions = Some(MaxReps)
    /\ args.a.blowout_buffer = Some(TRUE) /\ args.a.pre_buffer[1] > 0
    /\ args.a.new_defaults = Some(TRUE)
    /\ Len(ret.val) = 2 * MaxReps + 6

\* a transport that is placed by tracked liquid-surface following
UsesTracked(t) ==
    /\ TipZ(t) # NONE
    /\ "detection" \in DOMAIN TipZ(t)[1]
    /\ TipZ(t)[1].detection.method = "tracked"

C7_ShimWitness ==
    /\ op = "old_stamp_asp_transports" /\ Returned
    /\ args.l.new_defaults = Some(TRUE)
    /\ args.l.aspirate_source = Some(Depth("ll_following"))
    /\ TipZ(ret.val[2]) = Some(At("liquid_surface", mm(2)))

\* C8: stamp_dsp_helper emits, in this order: the transit air-gap expel only when
\* new_defaults is set and transit_vol > 0; one move to tip_z, well_bottom +1 mm when
\* tip_z is unset; one dispense of +volume at tracked liquid_surface when following and
\* at preceding_position otherwise; the mix-after sequence iff mix_after; and, iff
\* blowout_buffer is set and pre_buffer > 0, the re-position (well_top -2 mm under
\* new_defaults, well_bottom +1 mm otherwise) followed by expelling +pre_buffer as air
C8_StampDspOrder ==
    op = "stamp_dsp_helper" =>
        LET a == args.a
        IN Steps(ret.val) =
               (IF a.new_defaults = Some(TRUE) /\ a.transit_vol[1] > 0
                THEN << Air(a.transit_vol[1], At("well_top", mm(1))) >> ELSE << >>)
               \o << Move(IF a.tip_z = NONE THEN Some(At("well_bottom", mm(1)))
                          ELSE a.tip_z),
                     Liquid(args.volume, FollowingZ(a)) >>
               \o MixSteps(a.mix_after, a, args.volume, Some(mm(1)))
               \o BlowoutSteps(a)

C8_Witness ==
    /\ op = "stamp_dsp_helper"
    /\ args.a.tip_z = NONE /\ args.a.new_defaults = NONE /\ args.a.transit_vol[1] > 0
    /\ args.a.following = Some(TRUE) /\ args.a.mix_after = Some(TRUE)
    /\ args.a.repetitions = Some(MaxReps)
    /\ args.a.blowout_buffer = Some(TRUE) /\ args.a.pre_buffer[1] > 0
    /\ Len(ret.val) = 2 * MaxReps + 5

-----------------------------------------------------------------------------
(* C9 *)

Without(l, ks) == [k \in DOMAIN l |-> IF k \in ks THEN NONE ELSE l[k]]

\* C9: what a dispense shim returns does not depend on aspirate_source and
\* aspirate_speed, what an aspirate shim returns does not depend on dispense_target and
\* dispense_speed (the call without them returns the same), and no shim raises the
\* mutual-exclusion error
C9_DroppedArguments ==
    /\ op = "old_xfer_dsp_transports" =>
           ret = old_xfer_dsp_transports(Without(args.l, {"aspirate_source", "aspirate_speed"}),
                                         args.mix_kwargs)
    /\ op = "old_stamp_dsp_transports" =>
           ret = old_stamp_dsp_transports(Without(args.l, {"aspirate_source", "aspirate_speed"}))
    /\ op = "old_xfer_asp_transports" =>
           ret = old_xfer_asp_transports(Without(args.l, {"dispense_target", "dispense_speed"}),
                                         args.mix_kwargs)
    /\ op = "old_stamp_asp_transports" =>
           ret = old_stamp_asp_transports(Without(args.l, {"dispense_target", "dispense_speed"}))
    /\ op \in {"old_xfer_dsp_transports", "old_stamp_dsp_transports",
               "old_xfer_asp_transports", "old_stamp_asp_transports"} => ~MutualExclusion

C9_Witness ==
    /\ op = "old_xfer_dsp_transports" /\ Returned
    /\ NonEmpty(args.l.aspirate_source) /\ NonEmpty(args.l.dispense_target)
    /\ args.l.aspirate_speed # NONE

-----------------------------------------------------------------------------
(* C10 *)

\* the keyword that governs a phase: the phase's own when passed, else the plain one
PhaseKw(mk, plain, own) ==
    IF own \in DOMAIN mk THEN mk[own] ELSE IF plain \in DOMAIN mk THEN mk[plain] ELSE NONE

KwOf(mk, k) == IF k \in DOMAIN mk THEN mk[k] ELSE NONE

\* the mix sequence of a phase of a 50 uL transfer, from the bundle's keywords
PhaseMix(mk, flag, own_repetitions) ==
    MixSteps(KwOf(mk, flag),
             [mix_vol |-> KwOf(mk, "mix_vol"),
              repetitions |-> PhaseKw(mk, "repetitions", own_repetitions)],
             uL(50), Some(500))

\* the target flow-rate of the mix of a phase
PhaseFlow(mk, own_flowrate) ==
    LET f == PhaseKw(mk, "flowrate", own_flowrate) IN IF f # NONE THEN f[1] ELSE uL(100)

\* every mix transport of the list, those from index `from` on for `len` steps, flows
\* at the target flow-rate `flow`
MixFlows(list, from, len, flow) ==
    \A i \in (from + 1)..(from + len - 1) : list[i].flowrate = [target |-> flow]

\* C10: the mixing bundle is split by phase. old_xfer_asp_transports discards mix_after,
\* repetitions_a and flowrate_a and takes repetitions_b / flowrate_b for the repetitions
\* and the flow-rate of the mix, overriding plain ones; old_xfer_dsp_transports discards
\* mix_before, repetitions_b and flowrate_b and takes repetitions_a / flowrate_a: the mix
\* of the aspirate list follows the 'before' parameters only, that of the dispense list
\* the 'after' parameters only
C10_MixBundleByPhase ==
    /\ (op = "old_xfer_asp_transports" /\ DOMAIN args.mix_kwargs # {}) =>
        LET mk == args.mix_kwargs
            mix == PhaseMix(mk, "mix_before", "repetitions_b")
        IN /\ Returned
           /\ ret = old_xfer_asp_transports(
                        args.l, Pop(mk, {"mix_after", "repetitions_a", "flowrate_a"}))
           /\ Steps(ret.val) =
                  << Air(-uL(15), At("well_top", mm(1))) >>
                  \o mix
                  \o << Move(Some(default_xfer_tip_z)), Liquid(-uL(55), Tracked),
                        Liquid(uL(5), Preceding), Move(Some(At("well_top", mm(1)))),
                        Air(-uL(2), Preceding) >>
           /\ MixFlows(ret.val, 2, Len(mix), PhaseFlow(mk, "flowrate_b"))
    /\ (op = "old_xfer_dsp_transports" /\ DOMAIN args.mix_kwargs # {}) =>
        LET mk == args.mix_kwargs
            mix == PhaseMix(mk, "mix_after", "repetitions_a")
        IN /\ Returned
           /\ ret = old_xfer_dsp_transports(
                        args.l, Pop(mk, {"mix_before", "repetitions_b", "flowrate_b"}))
           /\ Steps(ret.val) =
                  << Air(uL(2), At("well_top", mm(1))), Move(Some(default_xfer_tip_z)),
                     Liquid(uL(50), Tracked) >>
                  \o mix
           /\ MixFlows(ret.val, 4, Len(mix), PhaseFlow(mk, "flowrate_a"))

C10_Witness ==
    /\ op = "old_xfer_asp_transports" /\ Returned
    /\ KwOf(args.mix_kwargs, "mix_before") = Some(TRUE)
    /\ KwOf(args.mix_kwargs, "mix_after") = Some(TRUE)
    /\ KwOf(args.mix_kwargs, "repetitions") = Some(1)
    /\ KwOf(args.mix_kwargs, "repetitions_a") = Some(2)
    /\ KwOf(args.mix_kwargs, "repetitions_b") = Some(MaxReps)
    /\ KwOf(args.mix_kwargs, "flowrate") = Some(uL(50))
    /\ KwOf(args.mix_kwargs, "flowrate_b") = Some(uL(70))
    /\ Len(ret.val) = 2 * MaxReps + 7

\* the dispense half of C10
C10_DspWitness ==
    /\ op = "old_xfer_dsp_transports" /\ Returned
    /\ KwOf(args.mix_kwargs, "mix_before") = Some(TRUE)
    /\ KwOf(args.mix_kwargs, "mix_after") = Some(TRUE)
    /\ KwOf(args.mix_kwargs, "repetitions_a") = Some(2)
    /\ KwOf(args.mix_kwargs, "repetitions_b") = Some(MaxReps)
    /\ Len(ret.val) = 8

-----------------------------------------------------------------------------
(* C11 - C15: z_position_builder and flowrate_builder *)

\* a call of z_position_builder whose arguments have the types the builder asks for
ZTyped ==
    /\ args.reference.t \in {"NoneType", "str"}
    /\ args.offset.t \in {"NoneType", "Unit"}
    /\ args.detection_method.t \in {"NoneType", "str"}
    /\ args.detection_threshold.t \in {"NoneType", "Unit"}
    /\ args.fallback.t \in {"NoneType", "dict"}
    /\ args.device.t \in {"NoneType", "str"}

\* a device of the allow-list, or none
KnownDevice == args.device \in {PyNone, PyStr("omni"), PyStr("bravo")}

\* the call names a detection method
NamesMethod == args.detection_method.t = "str" /\ args.detection_method.s # ""

NoMethod == args.detection_method \in {PyNone, PyStr("")}

ReturnedDetection ==
    op = "z_position_builder" /\ ret.exc = "none" /\ "detection" \in DOMAIN ret.val

\* C13 as stated: every returned z position that has a detection entry has reference =
\* liquid_surface
C13_DetectionOnlyAtLiquidSurface ==
    ReturnedDetection =>
        "reference" \in DOMAIN ret.val /\ ret.val.reference = "liquid_surface"

\* C13, amended: z_position_builder rejects a detection method only when the reference is
\* well_top or well_bottom: every returned z position that has a detection entry has
\* reference liquid_surface or preceding_position, or no reference, and a method of the
\* device's set combined with one of these is accepted and recorded
C13_DetectionNotAtWellTopOrBottom ==
    /\ ReturnedDetection =>
           \/ "reference" \notin DOMAIN ret.val
           \/ ret.val.reference \in {"liquid_surface", "preceding_position"}
    /\ (/\ op = "z_position_builder" /\ ZTyped /\ KnownDevice
        /\ args.detection_method \in {PyStr("tracked"), PyStr("pressure"), PyStr("capacitance")}
        /\ args.reference \in {PyNone, PyStr(""), PyStr("liquid_surface"),
                               PyStr("preceding_position")})
       => /\ ReturnedDetection
          /\ ret.val.detection.method = args.detection_method.s

C13_Witness ==
    /\ ReturnedDetection
    /\ args.reference = PyStr("preceding_position")
    /\ args.detection_method = PyStr("tracked")
    /\ ret.val.reference = "preceding_position"

\* a detection method without any reference is accepted as well
C13_NoReferenceWitness ==
    /\ ReturnedDetection
    /\ args.reference = PyNone
    /\ "reference" \notin DOMAIN ret.val

\* the arguments of the flowrate_builder call pass its type checks
FlowTyped ==
    /\ args.x_acceleration.t \in {"NoneType", "int"}
    /\ args.x_deceleration.t \in {"NoneType", "int"}

\* C14: with device bravo, flowrate_builder rejects a supplied initial and a supplied
\* x_deceleration with ValueError, while device omni accepts both
C14_BravoRejectsInitialAndDeceleration ==
    (op = "flowrate_builder" /\ FlowTyped) =>
        /\ (/\ args.device = PyStr("bravo")
            /\ (args.initial # PyNone \/ args.x_deceleration # PyNone))
           => ret.exc = "ValueError"
        /\ args.device = PyStr("omni") => ret.exc = "none"

\* C15: z_position_builder checks the detection method against the set of the device:
\* bravo takes tracked only, pressure and capacitance raise ValueError; omni takes all three
C15_MethodOfTheDevice ==
    (/\ op = "z_position_builder" /\ ZTyped
     /\ args.reference = PyStr("liquid_surface")
     /\ args.detection_method \in {PyStr("tracked"), PyStr("pressure"), PyStr("capacitance")})
    => /\ (/\ args.device = PyStr("bravo")
           /\ args.detection_method \in {PyStr("pressure"), PyStr("capacitance")})
          => ret.exc = "ValueError"
       /\ (args.device = PyStr("bravo") /\ args.detection_method = PyStr("tracked"))
          => ret.exc = "none"
       /\ args.device = PyStr("omni") => ret.exc = "none"

(***************************************************************************)
(* C16 - C19: transport_builder, shape_builder, mode_params_builder and    *)
(* location_builder                                                        *)
(***************************************************************************)
TransportFields == {"volume", "flowrate", "delay_time", "mode_params", "x_calibrated_volume"}

\* flowrate and mode_params are absent or record-shaped
TransportTyped ==
    /\ args.flowrate.t \in {"NoneType", "dict"}
    /\ args.mode_params.t \in {"NoneType", "dict"}

\* the call returned a record whose keys are exactly the supplied non-null fields, each
\* with the supplied value
TransportRecord ==
    /\ ret.exc = "none"
    /\ ret.val # NONE
    /\ DOMAIN ret.val[1] = {k \in TransportFields : args[k] # PyNone}
    /\ \A k \in DOMAIN ret.val[1] : ret.val[1][k] = args[k]

C16_NoneWitness ==
    /\ op = "transport_builder"
    /\ \A k \in TransportFields : args[k] = PyNone
    /\ ret = Ok(NONE)

\* a mode_params that is a string raises TypeError
C16_TypeErrorWitness ==
    /\ op = "transport_builder"
    /\ args.flowrate = PyDict(1) /\ args.mode_params = PyStr("1")
    /\ ret = Raise("TypeError", "mode_params")

\* the largest rows and columns of a plate format
RowsOf(format) == IF format = "SBS96" THEN 8 ELSE 16

ColumnsOf(format) == IF format = "SBS96" THEN 12 ELSE 24

\* C17: shape_builder succeeds for every integer rows and columns within the bounds of
\* the format (8 by 12 for SBS96, 16 by 24 for SBS384), raises ValueError when either is
\* one above its bound or when the format is neither SBS96 nor SBS384, and raises
\* TypeError for rows or columns that are not integers before it checks any value
C17_ShapeBounds ==
    op = "shape_builder" =>
        IF args.rows.t # "int" \/ args.columns.t # "int" THEN ret.exc = "TypeError"
        ELSE IF args.format.s \notin {"SBS96", "SBS384"} THEN ret.exc = "ValueError"
        ELSE /\ (/\ args.rows.n <= RowsOf(args.format.s)
                 /\ args.columns.n <= ColumnsOf(args.format.s))
                => /\ ret.exc = "none"
                   /\ "format" \in DOMAIN ret.val
                   /\ ret.val.format = args.format
             /\ (\/ args.rows.n = RowsOf(args.format.s) + 1
                 \/ args.columns.n = ColumnsOf(args.format.s) + 1)
                => ret.exc = "ValueError"

C17_Witness ==
    /\ op = "shape_builder"
    /\ args = [rows |-> PyInt(16), columns |-> PyInt(24), format |-> PyStr("SBS384")]
    /\ ret.exc = "none"
    /\ ret.val.rows = PyInt(16) /\ ret.val.columns = PyInt(24)

\* one row above the bound of SBS96
C17_ExceedWitness ==
    /\ op = "shape_builder"
    /\ args = [rows |-> PyInt(9), columns |-> PyInt(12), format |-> PyStr("SBS96")]
    /\ ret = Raise("ValueError", "exceed")

\* a wrongly typed rows is reported although the format is unsupported as well
C17_TypeFirstWitness ==
    /\ op = "shape_builder"
    /\ args.rows = PyStr("1") /\ args.format = PyStr("SBS24")
    /\ ret = Raise("TypeError", "rows_columns")

\* the type a mode_params_builder argument should have
ModeTypes(k) == IF k = "liquid_class" THEN {"str"}
                ELSE IF k = "tip_z" THEN {"dict"} ELSE {"int", "float"}

ModeFields == {"liquid_class", "tip_x", "tip_y", "tip_z"}

\* liquid_class is a string outside {air, default}
ClassOutside == args.liquid_class.t = "str" /\ args.liquid_class.s \notin {"air", "default"}

\* the coordinate is a number outside [-1, 1]
CoordinateOutside(k) == args[k].t \in {"int", "float"} /\ (args[k].n > 1 \/ args[k].n < -1)

\* the call returned a record that has a tip_position key, holding exactly the coordinates
\* that were given and are not falsy
ModeRecord ==
    /\ ret.exc = "none"
    /\ "tip_position" \in DOMAIN ret.val
    /\ DOMAIN ret.val.tip_position =
           (IF Truthy(args.tip_x) THEN {"position_x"} ELSE {})
           \cup (IF Truthy(args.tip_y) THEN {"position_y"} ELSE {})
           \cup (IF Truthy(args.tip_z) THEN {"position_z"} ELSE {})

C18_FalsyWitness ==
    /\ op = "mode_params_builder"
    /\ args.liquid_class = PyInt(0) /\ args.tip_z = PyList(0)
    /\ args.tip_x = PyInt(1) /\ args.tip_y = PyNone
    /\ ModeRecord
    /\ DOMAIN ret.val = {"tip_position"}

C18_ValueErrorWitness ==
    /\ op = "mode_params_builder"
    /\ args.liquid_class = PyStr("default") /\ args.tip_x = PyInt(-1)
    /\ args.tip_y = PyInt(-2) /\ args.tip_z = PyDict(1)
    /\ ret = Raise("ValueError", "tip_y")

LocationFields == {"location", "transports", "cycles", "x_object_volume"}

\* the types a location_builder argument may have
LocationTypes(k) == IF k = "location" THEN {"str", "Well"}
                    ELSE IF k = "cycles" THEN {"int"} ELSE {"list"}

C19_ValueErrorWitness ==
    /\ op = "location_builder"
    /\ args.transports = PyList(1) /\ args.cycles = PyInt(0)
    /\ ret = Raise("ValueError", "cycles")

C19_NoneWitness ==
    /\ op = "location_builder"
    /\ \A k \in LocationFields : args[k] = PyNone
    /\ ret = Ok(NONE)

\* an empty string as the only field is kept
C19_RecordWitness ==
    /\ op = "location_builder"
    /\ args.location = PyStr("")
    /\ \A k \in LocationFields \ {"location"} : args[k] = PyNone
    /\ ret = Ok(Some([location |-> PyStr("")]))

(***************************************************************************)
(* C20: the volume and primer_vol keys of the legacy records               *)
(***************************************************************************)
\* the items of a legacy record, none when the record is not passed
ItemsOf(o) == IF o = NONE THEN << >> ELSE o[1]

\* the translator returned the value v under the key k
Yields(k, v) == k \in DOMAIN ret.val /\ ret.val[k] = Some(v)

\* every item of the record o whose key is k has its value returned under the key name
KeyYields(o, k, name) ==
    \A i \in 1..Len(ItemsOf(o)) : ItemsOf(o)[i][1] = k => Yields(name, ItemsOf(o)[i][2])

\* C20: in parse_xfer_params an aspirate_source or dispense_target that holds a volume key
\* yields calibrated_vol equal to that volume, and an aspirate_source that holds a
\* primer_vol key yields that primer_vol, whatever other keys the record holds and in
\* whatever order they are visited
C20_VolumeAndPrimerVolYielded ==
    (op = "parse_xfer_params" /\ ret.exc = "none") =>
        /\ KeyYields(args.aspirate_source, "volume", "calibrated_vol")
        /\ KeyYields(args.dispense_target, "volume", "calibrated_vol")
        /\ KeyYields(args.aspirate_source, "primer_vol", "primer_vol")

(***************************************************************************)
(* C21 - C22: the calibrated volume when the legacy record gives none      *)
(***************************************************************************)
\* the legacy record o holds a volume key
HasVolumeKey(o) == \E i \in 1..Len(ItemsOf(o)) : ItemsOf(o)[i][1] = "volume"

\* the transports of the list that move liquid and carry no x_calibrated_volume
Uncalibrated(list) ==
    {i \in 1..Len(list) : "volume" \in DOMAIN list[i]
                          /\ "x_calibrated_volume" \notin DOMAIN list[i]}

\* C21 as stated: without a legacy volume parse_xfer_params still outputs a calibrated_vol,
\* so that every liquid transport of the single-channel lists carries an
\* x_calibrated_volume
C21_CalibratedVolAlways ==
    /\ (/\ op = "parse_xfer_params" /\ Returned
        /\ ~HasVolumeKey(args.aspirate_source) /\ ~HasVolumeKey(args.dispense_target))
       => "calibrated_vol" \in DOMAIN ret.val
    /\ (op \in {"old_xfer_asp_transports", "old_xfer_dsp_transports"} /\ Returned)
       => Uncalibrated(ret.val) = {}

\* C21, amended: parse_xfer_params has no correction curve: without a legacy volume it
\* outputs no calibrated_vol, and the one aspirate transport of old_xfer_asp_transports
\* and the one dispense transport of old_xfer_dsp_transports carry no
\* x_calibrated_volume
C21_NoCalibratedVolWithoutLegacyVolume ==
    /\ (/\ op = "parse_xfer_params" /\ Returned
        /\ ~HasVolumeKey(args.aspirate_source) /\ ~HasVolumeKey(args.dispense_target))
       => "calibrated_vol" \notin DOMAIN ret.val
    /\ (/\ op = "old_xfer_asp_transports" /\ Returned
        /\ ~HasVolumeKey(args.l.aspirate_source))
       => /\ Cardinality(Uncalibrated(ret.val)) = 1
          /\ \A i \in Uncalibrated(ret.val) : ret.val[i].volume < 0
    /\ (/\ op = "old_xfer_dsp_transports" /\ Returned
        /\ ~HasVolumeKey(args.l.dispense_target))
       => /\ Cardinality(Uncalibrated(ret.val)) = 1
          /\ \A i \in Uncalibrated(ret.val) : ret.val[i].volume = args.l.volume[1]

C21_Witness ==
    /\ op = "parse_xfer_params" /\ Returned
    /\ args.volume = Some(uL(10))
    /\ args.aspirate_source = NONE /\ args.dispense_target = NONE
    /\ "calibrated_vol" \notin DOMAIN ret.val

\* the aspirate of the single-channel list carries no x_calibrated_volume
C21_AspWitness ==
    /\ op = "old_xfer_asp_transports" /\ Returned
    /\ args.l.aspirate_source = NONE
    /\ args.l.volume = Some(uL(9))
    /\ Cardinality(Uncalibrated(ret.val)) = 1

\* C22: without a legacy volume, parse_stamp_params outputs the nominal volume corrected by
\* the curve exactly when shape_format is SBS384, and the nominal volume itself for every
\* other shape_format
C22_CurveExactlyForSBS384 ==
    (/\ op = "parse_stamp_params" /\ Returned
     /\ ~HasVolumeKey(args.aspirate_source) /\ ~HasVolumeKey(args.dispense_target))
    => IF args.shape_format = Some("SBS384")
       THEN Yields("calibrated_vol", get_cal_vol(Some("SBS384"), args.volume[1]))
       ELSE Yields("calibrated_vol", args.volume[1])

(***************************************************************************)
(* C23 - C24: the depth of a legacy record                                 *)
(***************************************************************************)
\* the depth records of the legacy record o
DepthsOf(o) == {ItemsOf(o)[i][2] : i \in {i \in 1..Len(ItemsOf(o)) : ItemsOf(o)[i][1] = "depth"}}

\* the values a depth record holds under the key k
DepthValues(depth, k) == {depth[j][2] : j \in {j \in 1..Len(depth) : depth[j][1] = k}}

\* the depth methods of the legacy record o
MethodsOf(o) == UNION {DepthValues(depth, "method") : depth \in DepthsOf(o)}

\* a depth of the legacy record o names a detection method
NamesDetection(o) ==
    \E depth \in DepthsOf(o) : \E j \in 1..Len(depth) : depth[j][1] \in {"capacitive", "pressure"}

\* the legacy record the translator reads: both records given is the mutual exclusion error
LegacyRecord ==
    IF NonEmpty(args.aspirate_source) THEN args.aspirate_source ELSE args.dispense_target

ReferenceOf(method) ==
    IF method = "ll_top" THEN "well_top"
    ELSE IF method = "ll_bottom" THEN "well_bottom" ELSE "liquid_surface"

\* C23: both translators map the depth method to the reference of tip_z, ll_following and
\* ll_surface to liquid_surface, ll_top to well_top, ll_bottom to well_bottom, with
\* following true for ll_following and false for ll_surface; parse_stamp_params raises
\* ValueError for a depth that names a detection method
C23_DepthMethodToReference ==
    (/\ op \in {"parse_xfer_params", "parse_stamp_params"}
     /\ ~(NonEmpty(args.aspirate_source) /\ NonEmpty(args.dispense_target)))
    => /\ Returned =>
            \A m \in MethodsOf(LegacyRecord) :
                /\ ret.val.tip_z[1].reference = ReferenceOf(m)
                /\ m = "ll_following" => ret.val.following = Some(TRUE)
                /\ m = "ll_surface" => ret.val.following = Some(FALSE)
       /\ (op = "parse_stamp_params" /\ NamesDetection(LegacyRecord))
          => ret = Raise("ValueError", "no_multichannel_detection")

C23_Witness ==
    /\ op = "parse_stamp_params" /\ Returned
    /\ args.aspirate_source = NONE
    /\ args.dispense_target = Some(Depth("ll_top"))
    /\ ret.val.tip_z[1].reference = "well_top"

C23_SurfaceWitness ==
    /\ op = "parse_xfer_params" /\ Returned
    /\ args.aspirate_source = Some(Depth("ll_surface"))
    /\ ret.val.tip_z[1].reference = "liquid_surface"
    /\ ret.val.following = Some(FALSE)

C23_FollowingWitness ==
    /\ op = "parse_stamp_params" /\ Returned
    /\ args.aspirate_source = Some(Depth("ll_following"))
    /\ ret.val.tip_z[1].reference = "liquid_surface"
    /\ ret.val.following = Some(TRUE)

\* a capacitive depth makes the multi-channel translator raise
C23_DetectionWitness ==
    /\ op = "parse_stamp_params"
    /\ args.dispense_target = NONE
    /\ NamesDetection(args.aspirate_source)
    /\ \E depth \in DepthsOf(args.aspirate_source) : DepthValues(depth, "capacitive") # {}
    /\ ret = Raise("ValueError", "no_multichannel_detection")

\* the depth of the record the translator reads resolves to well_top or well_bottom
FixedDepth == MethodsOf(LegacyRecord) \cap {"ll_top", "ll_bottom"} # {}

\* C24: every tip_z the translators return has a detection entry only if its reference is
\* liquid_surface; when the depth resolves to well_top or well_bottom the default method
\* and threshold and any clld or plld threshold or duration are removed before the
\* z position is built, and no depth method makes the translator raise the "detection
\* does not apply" error
C24_DetectionPurged ==
    (/\ op \in {"parse_xfer_params", "parse_stamp_params"}
     /\ ~(NonEmpty(args.aspirate_source) /\ NonEmpty(args.dispense_target)))
    => /\ ~(ret.exc = "ValueError" /\ ret.msg = "detection_does_not_apply")
       /\ Returned =>
            /\ "detection" \in DOMAIN ret.val.tip_z[1]
               => ret.val.tip_z[1].reference = "liquid_surface"
            /\ FixedDepth => DOMAIN ret.val.tip_z[1] \subseteq {"reference", "offset"}
       /\ (op = "parse_xfer_params" /\ args.volume # NONE /\ FixedDepth) => Returned

\* a well_top depth with a clld_sensitivity: the tip_z is the bare well_top position
C24_Witness ==
    /\ op = "parse_xfer_params" /\ Returned
    /\ args.dispense_target = NONE
    /\ args.aspirate_source = Some(Depth("ll_top") \o << Item("clld_sensitivity", 40) >>)
    /\ ret.val.tip_z = Some(At("well_top", mm(2)))

\* a well_bottom depth with a plld_threshold
C24_PressureWitness ==
    /\ op = "parse_xfer_params" /\ Returned
    /\ \E i \in 1..Len(ItemsOf(args.aspirate_source)) :
           ItemsOf(args.aspirate_source)[i][1] = "plld_threshold"
    /\ ret.val.tip_z = Some(At("well_bottom", mm(2)))

\* without a depth the single-channel tip_z keeps its capacitance detection
C24_SurfaceWitness ==
    /\ op = "parse_xfer_params" /\ Returned
    /\ args.aspirate_source = NONE /\ args.dispense_target = NONE
    /\ ret.val.tip_z[1].reference = "liquid_surface"
    /\ ret.val.tip_z[1].detection.method = "capacitance"

(***************************************************************************)
(* C25 - C27: following, pre_buffer, transit_vol and blowout_buffer of the *)
(* multi-channel translator                                                *)
(***************************************************************************)
\* the dispense of the nominal volume is placed by tracked liquid-surface following
DispenseTracked(list, volume) ==
    \E i \in 1..Len(list) :
        /\ "volume" \in DOMAIN list[i] /\ list[i].volume = volume
        /\ UsesTracked(list[i])

\* C25 as stated: in every result of parse_stamp_params following is true only if
\* new_defaults was set, and without new_defaults the dispense of
\* old_stamp_dsp_transports is never placed by tracked following
C25_FollowingOnlyWithNewDefaults ==
    /\ (op = "parse_stamp_params" /\ Returned /\ ret.val.following = Some(TRUE))
       => args.new_defaults = Some(TRUE)
    /\ (op = "old_stamp_dsp_transports" /\ Returned /\ args.l.new_defaults # Some(TRUE))
       => ~DispenseTracked(ret.val, args.l.volume[1])

\* what following is after the record o was read: a depth sets it, to false for
\* ll_surface and to true for every other method; without a depth it is new_defaults
StampFollowing(o, new_defaults) ==
    IF DepthsOf(o) # {} THEN "ll_surface" \notin MethodsOf(o)
    ELSE new_defaults = Some(TRUE)

\* C25, amended: without a depth in the legacy record following is true exactly when
\* new_defaults is set; a depth in the record sets following whatever new_defaults is,
\* to true for ll_following, ll_top and ll_bottom and to false for ll_surface, and the
\* dispense of old_stamp_dsp_transports is placed by tracked following exactly then
C25_FollowingFromDepthOrNewDefaults ==
    /\ (op = "parse_stamp_params" /\ Returned)
       => (ret.val.following = Some(TRUE)
           <=> StampFollowing(LegacyRecord, args.new_defaults))
    /\ (op = "old_stamp_dsp_transports" /\ Returned)
       => (DispenseTracked(ret.val, args.l.volume[1])
           <=> StampFollowing(args.l.dispense_target, args.l.new_defaults))

\* no depth, no new_defaults: following is false
C25_Witness ==
    /\ op = "parse_stamp_params" /\ Returned
    /\ args.new_defaults = NONE
    /\ args.aspirate_source = NONE /\ args.dispense_target = NONE
    /\ ret.val.following = Some(FALSE)

\* a well_bottom depth without new_defaults: the dispense is placed by tracked following
C25_DepthWitness ==
    /\ op = "old_stamp_dsp_transports" /\ Returned
    /\ args.l.new_defaults = NONE
    /\ args.l.dispense_target = Some(Depth("ll_bottom"))
    /\ DispenseTracked(ret.val, args.l.volume[1])

\* new_defaults with an ll_surface depth: following is false
C25_SurfaceWitness ==
    /\ op = "parse_stamp_params" /\ Returned
    /\ args.new_defaults = Some(TRUE)
    /\ args.dispense_target = Some(Depth("ll_surface"))
    /\ ret.val.following = Some(FALSE)

\* C26: parse_stamp_params defaults pre_buffer to 5 uL and transit_vol to 1 uL for every
\* nominal volume when they are not supplied, and turns blowout_buffer on when it is not
\* supplied and pre_buffer > 0
C26_StampDefaults ==
    (op = "parse_stamp_params" /\ Returned) =>
        /\ ret.val.pre_buffer = IF args.pre_buffer = NONE THEN Some(uL(5)) ELSE args.pre_buffer
        /\ ret.val.transit_vol = IF args.transit_vol = NONE THEN Some(uL(1))
                                 ELSE args.transit_vol
        /\ args.blowout_buffer = NONE =>
               IF ret.val.pre_buffer[1] > 0 THEN Yields("blowout_buffer", TRUE)
               ELSE "blowout_buffer" \notin DOMAIN ret.val

C26_Witness ==
    /\ op = "parse_stamp_params" /\ Returned
    /\ args.volume = Some(uL(20))
    /\ args.pre_buffer = NONE /\ args.transit_vol = NONE /\ args.blowout_buffer = NONE
    /\ ret.val.pre_buffer = Some(uL(5))
    /\ ret.val.transit_vol = Some(uL(1))
    /\ ret.val.blowout_buffer = Some(TRUE)

\* a pre_buffer of 0 uL leaves blowout_buffer off
C26_ZeroWitness ==
    /\ op = "parse_stamp_params" /\ Returned
    /\ args.pre_buffer = Some(uL(0)) /\ args.blowout_buffer = NONE
    /\ "blowout_buffer" \notin DOMAIN ret.val

\* the pre-buffer the multi-channel dispense shim works with
StampPreBuffer == IF args.l.pre_buffer = NONE THEN uL(5) ELSE args.l.pre_buffer[1]

\* C27: parse_stamp_params outputs blowout_buffer = true whenever pre_buffer > 0, also
\* when the caller passed blowout_buffer = False, so old_stamp_dsp_transports ends with
\* the blow-out re-position and the expel of +pre_buffer as air unless pre_buffer is 0
C27_BlowoutForced ==
    /\ (op = "parse_stamp_params" /\ Returned) =>
           IF ret.val.pre_buffer[1] > 0 THEN Yields("blowout_buffer", TRUE)
           ELSE IF "blowout_buffer" \in DOMAIN ret.val
           THEN ret.val.blowout_buffer = args.blowout_buffer
           ELSE args.blowout_buffer = NONE
    /\ (op = "old_stamp_dsp_transports" /\ Returned) =>
           LET steps == Steps(ret.val)
               n == Len(steps)
           IN IF StampPreBuffer > 0
              THEN /\ n >= 2
                   /\ steps[n] = Air(StampPreBuffer, Preceding)
                   /\ steps[n - 1] = Move(Some(IF args.l.new_defaults = Some(TRUE)
                                               THEN At("well_top", mm(-2))
                                               ELSE At("well_bottom", mm(1))))
              ELSE steps[n].kind # "air"

\* blowout_buffer = False is overridden
C27_Witness ==
    /\ op = "parse_stamp_params" /\ Returned
    /\ args.blowout_buffer = Some(FALSE)
    /\ args.pre_buffer = Some(uL(15))
    /\ ret.val.blowout_buffer = Some(TRUE)

C27_ShimWitness ==
    /\ op = "old_stamp_dsp_transports" /\ Returned
    /\ args.l.blowout_buffer = Some(FALSE) /\ args.l.pre_buffer = NONE
    /\ Steps(ret.val)[Len(ret.val)] = Air(uL(5), Preceding)

\* a pre_buffer of 0 uL is the only way to go without the blow-out
C27_ZeroWitness ==
    /\ op = "old_stamp_dsp_transports" /\ Returned
    /\ args.l.blowout_buffer = Some(TRUE) /\ args.l.pre_buffer = Some(uL(0))
    /\ Steps(ret.val)[Len(ret.val)].kind = "liquid"

(***************************************************************************)
(* C28: a fixed depth in the single-channel translator                     *)
(***************************************************************************)
\* step i of the list is the move to the fixed reference of the depth method and step
\* i + 1 moves liquid at the tracked liquid surface, 1 mm below it
MoveThenTracked(steps, i, methods) ==
    /\ steps[i].kind = "move" /\ steps[i].z # NONE
    /\ \E m \in methods : steps[i].z[1].reference = ReferenceOf(m)
    /\ "detection" \notin DOMAIN steps[i].z[1]
    /\ steps[i + 1].kind = "liquid"
    /\ steps[i + 1].z = Some(Tracked)

FixedMethods(o) == MethodsOf(o) \cap {"ll_top", "ll_bottom"}

\* C28: in parse_xfer_params a depth whose method is ll_top or ll_bottom leaves following
\* true, so the aspirate of old_xfer_asp_transports and the dispense of
\* old_xfer_dsp_transports are placed at liquid_surface with tracked detection and an
\* offset of -1 mm, although the move just before uses the well_top or well_bottom
\* reference of the depth
C28_FixedDepthStillFollows ==
    /\ (/\ op = "parse_xfer_params" /\ Returned
        /\ FixedMethods(LegacyRecord) # {})
       => /\ ret.val.following = Some(TRUE)
          /\ ret.val.tip_z[1].reference \in {"well_top", "well_bottom"}
    /\ (/\ op = "old_xfer_asp_transports" /\ Returned /\ args.mix_kwargs = << >>
        /\ FixedMethods(args.l.aspirate_source) # {})
       => \E i \in 1..(Len(ret.val) - 1) :
              /\ MoveThenTracked(Steps(ret.val), i, FixedMethods(args.l.aspirate_source))
              /\ Steps(ret.val)[i + 1].vol < 0
    /\ (/\ op = "old_xfer_dsp_transports" /\ Returned /\ args.mix_kwargs = << >>
        /\ FixedMethods(args.l.dispense_target) # {})
       => \E i \in 1..(Len(ret.val) - 1) :
              /\ MoveThenTracked(Steps(ret.val), i, FixedMethods(args.l.dispense_target))
              /\ Steps(ret.val)[i + 1].vol = args.l.volume[1]

C28_Witness ==
    /\ op = "old_xfer_asp_transports" /\ Returned
    /\ args.l.aspirate_source = Some(Depth("ll_bottom"))
    /\ Steps(ret.val)[2] = Move(Some(At("well_bottom", mm(2))))
    /\ Steps(ret.val)[3].kind = "liquid"
    /\ Steps(ret.val)[3].z = Some(Tracked)

C28_DspWitness ==
    /\ op = "old_xfer_dsp_transports" /\ Returned
    /\ args.l.dispense_target = Some(Depth("ll_top"))
    /\ \E i \in 1..(Len(ret.val) - 1) :
           /\ Steps(ret.val)[i] = Move(Some(At("well_top", mm(2))))
           /\ Steps(ret.val)[i + 1] = Liquid(args.l.volume[1], Tracked)

C28_ParseWitness ==
    /\ op = "parse_xfer_params" /\ Returned
    /\ args.aspirate_source = Some(Depth("ll_top"))
    /\ ret.val.following = Some(TRUE)
    /\ ret.val.tip_z = Some(At("well_top", mm(2)))

(***************************************************************************)
(* C29: the volume balance of the single-channel lists                     *)
(***************************************************************************)
RECURSIVE SumOver(_, _)
\* the sum of f[i] from i to the end of f
SumOver(f, i) == IF i > Len(f) THEN 0 ELSE f[i] + SumOver(f, i + 1)

\* the sum of the signed volume fields of the list
LiquidSum(list) ==
    SumOver([i \in 1..Len(list) |-> IF "volume" \in DOMAIN list[i] THEN list[i].volume ELSE 0],
            1)

\* the signed sum of the air the list moves
AirSum(list) ==
    SumOver([i \in 1..Len(list) |-> IF Step(list[i]).kind = "air" THEN Step(list[i]).vol
                                    ELSE 0], 1)

\* C29: the signed volume fields of the list of xfer_asp_helper sum to
\* -(volume + disposal_vol) and those of the list of xfer_dsp_helper to +volume, for every
\* mix setting; the air drawn while aspirating is pre_buffer + transit_vol, the air
\* expelled while dispensing is transit_vol, plus pre_buffer exactly when blowout_buffer
\* is set
C29_VolumeBalance ==
    /\ op = "xfer_asp_helper" =>
           /\ LiquidSum(ret.val) = -(args.volume + args.a.disposal_vol[1])
           /\ AirSum(ret.val) = -(args.a.pre_buffer[1] + args.a.transit_vol[1])
    /\ op = "xfer_dsp_helper" =>
           /\ LiquidSum(ret.val) = args.volume
           /\ AirSum(ret.val) = args.a.transit_vol[1]
                                + (IF args.a.blowout_buffer = Some(TRUE)
                                   THEN args.a.pre_buffer[1] ELSE 0)
    /\ (op = "old_xfer_asp_transports" /\ Returned) =>
           LiquidSum(ret.val) = -(args.l.volume[1]
                                  + (IF args.l.disposal_vol = NONE THEN 0
                                     ELSE args.l.disposal_vol[1]))
    /\ (op = "old_xfer_dsp_transports" /\ Returned) =>
           LiquidSum(ret.val) = args.l.volume[1]

C29_Witness ==
    /\ op = "xfer_asp_helper"
    /\ args.a.mix_before = Some(TRUE) /\ args.a.repetitions = Some(MaxReps)
    /\ args.a.disposal_vol = Some(uL(10)) /\ args.a.primer_vol = Some(uL(3))
    /\ args.a.pre_buffer[1] > 0 /\ args.a.transit_vol[1] > 0
    /\ LiquidSum(ret.val) = -(args.volume + uL(10))
    /\ AirSum(ret.val) < 0

C29_DspWitness ==
    /\ op = "xfer_dsp_helper"
    /\ args.a.mix_after = Some(TRUE) /\ args.a.repetitions = Some(MaxReps)
    /\ args.a.blowout_buffer = Some(TRUE) /\ args.a.pre_buffer[1] > 0
    /\ args.a.transit_vol[1] > 0
    /\ LiquidSum(ret.val) = args.volume
    /\ AirSum(ret.val) = args.a.transit_vol[1] + args.a.pre_buffer[1]

\* without blowout_buffer the pre-buffer stays in the tip
C29_NoBlowoutWitness ==
    /\ op = "xfer_dsp_helper"
    /\ args.a.blowout_buffer = Some(FALSE) /\ args.a.pre_buffer[1] > 0
    /\ args.a.transit_vol[1] > 0
    /\ AirSum(ret.val) = args.a.transit_vol[1]

(***************************************************************************)
(* C30: disposal_vol and the multi-channel shims                           *)
(***************************************************************************)
StampShims == {"old_stamp_asp_transports", "old_stamp_dsp_transports"}

XferShims == {"old_xfer_asp_transports", "old_xfer_dsp_transports"}

\* the call gives no legacy record
NoLegacyRecord == args.l.aspirate_source = NONE /\ args.l.dispense_target = NONE

C30_DspWitness ==
    /\ op = "old_stamp_dsp_transports"
    /\ args.l.disposal_vol = Some(uL(10))
    /\ ret = Raise("TypeError", "unexpected_keyword")

\* the single-channel aspirate takes the disposal volume along
C30_XferWitness ==
    /\ op = "old_xfer_asp_transports" /\ Returned
    /\ args.l.disposal_vol = Some(uL(10))
    /\ LiquidSum(ret.val) = -(args.l.volume[1] + uL(10))

====
